---- MODULE Spec2Model ----
(***************************************************************************)
(* Chat orchestration core of n8n_be: the non-streaming tool-calling loop  *)
(* (apps/chat/api.py chat + process_tool_calls), the streaming generator   *)
(* (chat_stream.generate), the tool executor (agents/tools/executor.py),   *)
(* the tool-server connection (agents/mcp/client.py) and the tool          *)
(* definition cache (agents/tools/definitions.py).                         *)
(*                                                                         *)
(* The specifications of the module:                                       *)
(*   Spec      one chat turn, non-streaming or streaming                   *)
(*   FairSpec  Spec with weak fairness: a handler that can step does       *)
(*   SpecExec  one ToolExecutor.execute_tool_calls batch                   *)
(*   SpecMCP   two concurrent callers of MCPClient._send_request, and      *)
(*             stop_server                                                 *)
(*   SpecDefs  calls of get_tool_definitions on the module-level cache     *)
(*   SpecMsg   ToolCallResult.to_message and the parse of its content      *)
(*   SpecStore stored conversations: MemoryManager.get_conversation_context *)
(*             and the /conversations/{id} endpoints                       *)
(*   SpecReload a reader of the tool definition cache beside a reload      *)
(*   SpecReader the threads reading the child's output and error streams   *)
(*   SpecTranslate the translation of a tools/list result                  *)
(*   SpecProcess the child processes of one connection                     *)
(*   SpecBalance the stored token balance under chat turns of one user     *)
(***************************************************************************)
EXTENDS Integers, Sequences, FiniteSets, TLC

VARIABLES
    \* ---- one chat turn (apps/chat/api.py) ----
    mode,            \* "chat" (POST /) or "stream" (POST /stream)
    mcp_enabled,     \* settings.MCP_ENABLED
    pc,              \* position of the handler / generator
    iteration,       \* process_tool_calls iteration / generate() iteration
    response,        \* the LLM response being processed (non-streaming)
    usage,           \* the `usage` dict last mutated at api.py:262-264
    api_messages,    \* message history sent to the LLM
    full_response,   \* generate(): full_response
    total_tokens,    \* generate(): total_tokens
    events,          \* server-sent events yielded so far
    saved,           \* ChatMessage rows created by this turn
    token_balance,   \* user.token_balance
    outcome,         \* what the non-streaming caller got
    streamStatus,    \* status code of the final streaming call
    linesRead,       \* lines consumed from the final streaming call
    \* ghosts of the turn (observations, never read by the handlers)
    batches,         \* tool batches executed
    llmCalls,        \* LLM provider calls made
    reportedSum,     \* sum of the usage reported by every 200 response
    textRounds,      \* responses that carried text (input budget)
    failedCall,      \* TRUE once a provider call returned a non-200 status
    caller_messages, \* the list build_from_request returned to the handler
    aliased,         \* the history in use is that very list, not a copy of it
    lastRequest,     \* ghost: body of the latest provider request
    rounds,          \* ghost: the tool rounds begun, in order
    answered,        \* ghost: tool_calls of the latest 200 answer
    answeredText,    \* ghost: content of the latest 200 answer
    \* ---- one ToolExecutor.execute_tool_calls batch (agents/tools/executor.py) ----
    exCalls,         \* tool_calls, the batch passed in
    exIdx,           \* position of the for loop (1-based)
    exResults,       \* results
    exPc,            \* "loop", "returned" or "raised"
    exSent,          \* ghost: calls forwarded to mcp_client.call_tool
    exMessages,      \* tool messages appended to the history after the batch
    \* ---- the tool-server connection (agents/mcp/client.py) ----
    m_request_id,    \* self._request_id
    m_lock,          \* holder of self._lock
    m_queue,         \* self._response_queue
    m_running,       \* self._running
    m_proc,          \* self._process: "none", "alive" or "dead"
    m_stdin,         \* requests written to the child and not yet answered
    m_stdout,        \* lines written by the child and not yet read
    t_pc,            \* position of each caller inside _send_request
    t_tmp,           \* value loaded by `self._request_id += 1`
    t_reqid,         \* request["id"] of each caller
    t_call,          \* ghost: serial number of the call each caller is in
    t_result,        \* MCPToolResult last returned to each caller
    \* ghosts of the connection
    m_calls,         \* calls started
    m_starts,        \* child processes launched after the first
    m_attempts,      \* start_server calls made by _ensure_server_running
    m_stopped,       \* stop_server has returned and no child was launched since
    m_initialized,   \* self._initialized
    m_booted,        \* start_mcp_server() has run
    m_start_ret,     \* ghost: what the last start_server call returned
    m_issued,        \* ids in the order _get_request_id returned them
    m_wire,          \* ids in the order they were written to the child
    m_delivered,     \* responses returned to callers
    m_timedout,      \* calls that ended in a timeout
    \* ---- the tool definition cache (agents/tools/definitions.py) ----
    cached_tools,    \* _cached_tools
    worker_loop,     \* current event loop of the synchronous request thread
    \* ghosts of the cache
    def_calls,       \* calls of get_tool_definitions made
    def_requests,    \* tools/list requests issued (client.list_tools() awaited)
    def_last,        \* what the last call of get_tool_definitions did
    \* ---- one ToolCallResult and its tool message (agents/tools/executor.py) ----
    tm_result,       \* the ToolCallResult
    tm_pc,           \* "made", "converted" or "parsed"
    tm_message,      \* what to_message() returned
    tm_parsed,       \* what json.loads made of the message content
    \* ---- stored conversations and messages (apps/chat/models.py) ----
    db_conversations, \* chat_conversations: a row, or none, for each id
    db_messages,     \* chat_messages, in the order the rows were inserted
    db_clock,        \* the wall clock that stamps created_at
    max_messages,    \* MemoryConfig.max_messages
    st_last,         \* the call being answered and what it gives, or none
    \* ---- two threads in get_tool_definitions (agents/tools/definitions.py) ----
    rl_pc,           \* the reloading call: "idle", "fetching", "loaded", "done"
    rl_tools,        \* its local `tools`
    rd_pc,           \* the reading call: "idle", "serve", "miss", "fetching",
                     \* "loaded", "returned"
    rd_tools,        \* its local `tools`
    rd_value,        \* what the reading call returned
    list_lock,       \* holder of MCPClient._lock during tools/list
    \* ghosts of the two threads
    rd_prev,         \* the cache when the reading call began
    rd_waited,       \* the reading call found the lock held by the reload
    rd_overlap,      \* the two calls ran at the same time
    \* ---- the reader threads of the connection (agents/mcp/client.py) ----
    rs_stdout,       \* complete lines the child wrote and the reader has not read
    rs_stderr,       \* lines on the error stream not yet read
    rs_queue,        \* self._response_queue
    rs_running,      \* self._running
    rs_reader,       \* the _read_stdout thread: "reading" or "ended"
    rs_call,         \* one call of _send_request: "waiting", "returned"
    rs_result,       \* what that call returned
    rs_printed,      \* ghost: lines the child has written to either stream
    \* ---- one translation of a tools/list result (agents/tools/definitions.py) ----
    tr_input,        \* tools_data["tools"], the native entries
    tr_output,       \* what _load_tools_from_mcp returned
    tr_pc,           \* "fetched" or "returned"
    \* ---- the child processes of one MCPClient (agents/mcp/client.py) ----
    ps_process,      \* self._process: a launched child, or NoProcess
    ps_running,      \* self._running
    ps_children,     \* the children launched so far: "alive" or "dead"
    ps_pc,           \* where each thread is in start_server / stop_server
    ps_ret,          \* what each thread's last start_server returned
    ps_ops,          \* operations begun
    \* ---- the token balance of one user (apps/chat/api.py, utils/auth.py) ----
    bl_stored,       \* the tokenBalance column of the user's row
    bl_user,         \* user.token_balance of each request's User object
    bl_pc,           \* "idle" or "turn", per request thread
    bl_due,          \* ghost: sum of total_tokens // 10 over completed turns
    bl_turns         \* turns begun

chatVars == <<mode, mcp_enabled, pc, iteration, response, usage, api_messages,
              full_response, total_tokens, events, saved, token_balance,
              outcome, streamStatus, linesRead, batches, llmCalls,
              reportedSum, textRounds, failedCall, caller_messages, aliased,
              lastRequest, rounds, answered, answeredText>>

\* the caller's list and the observations of requests and rounds
roundVars == <<caller_messages, aliased, lastRequest, rounds, answered, answeredText>>

execVars == <<exCalls, exIdx, exResults, exPc, exSent, exMessages>>

mcpVars == <<m_request_id, m_lock, m_queue, m_running, m_proc, m_stdin, m_stdout,
             t_pc, t_tmp, t_reqid, t_call, t_result, m_calls, m_starts, m_attempts,
             m_stopped, m_issued, m_wire, m_delivered, m_timedout, m_initialized,
             m_booted, m_start_ret>>

\* what only start_server writes
startVars == <<m_initialized, m_booted, m_start_ret>>

defVars == <<cached_tools, worker_loop, def_calls, def_requests, def_last>>

msgVars == <<tm_result, tm_pc, tm_message, tm_parsed>>

storeVars == <<db_conversations, db_messages, db_clock, max_messages, st_last>>

reloadVars == <<rl_pc, rl_tools, rd_pc, rd_tools, rd_value, list_lock, rd_prev,
                rd_waited, rd_overlap>>

readerVars == <<rs_stdout, rs_stderr, rs_queue, rs_running, rs_reader, rs_call,
                rs_result, rs_printed>>

\* the components that are studied on their own
translateVars == <<tr_input, tr_output, tr_pc>>

processVars == <<ps_process, ps_running, ps_children, ps_pc, ps_ret, ps_ops>>

balanceVars == <<bl_stored, bl_user, bl_pc, bl_due, bl_turns>>

laterVars == <<reloadVars, readerVars, translateVars, processVars, balanceVars>>

\* what the actions of one component leave alone
notChat == <<execVars, mcpVars, defVars, msgVars, storeVars, laterVars>>
notExec == <<chatVars, mcpVars, defVars, msgVars, storeVars, laterVars>>
notMCP == <<chatVars, execVars, defVars, msgVars, storeVars, laterVars>>
notDefs == <<chatVars, execVars, mcpVars, msgVars, storeVars, laterVars>>
notMsg == <<chatVars, execVars, mcpVars, defVars, storeVars, laterVars>>
notStore == <<chatVars, execVars, mcpVars, defVars, msgVars, laterVars>>
notReload == <<chatVars, execVars, mcpVars, msgVars, storeVars, worker_loop,
               def_calls, def_requests, def_last, readerVars, translateVars,
               processVars, balanceVars>>
notReader == <<chatVars, execVars, mcpVars, defVars, msgVars, storeVars, reloadVars,
               translateVars, processVars, balanceVars>>
notTranslate == <<chatVars, execVars, mcpVars, defVars, msgVars, storeVars,
                  reloadVars, readerVars, processVars, balanceVars>>
notProcess == <<chatVars, execVars, mcpVars, defVars, msgVars, storeVars,
                reloadVars, readerVars, translateVars, balanceVars>>
notBalance == <<chatVars, execVars, mcpVars, defVars, msgVars, storeVars,
                reloadVars, readerVars, translateVars, processVars>>

----------------------------------------------------------------------------
(* Program constants *)
MAX_TOOL_ITERATIONS == 10
chunk_size == 20
StartBalance == 1000

(* Bounds of the model *)
MaxTextRounds == 2       \* LLM responses of one turn that carry text
MaxStreamLines == 2      \* lines delivered by the final streaming call

----------------------------------------------------------------------------
(* Values *)
NoneVal == "None"
ConvId == "conv-1"

Min(a, b) == IF a < b THEN a ELSE b

RECURSIVE Concat(_)
Concat(ss) == IF ss = <<>> THEN <<>> ELSE Head(ss) \o Concat(Tail(ss))

\* Text is a sequence of characters; characters are small integers.
EmptyText == <<>>
LongText == [i \in 1..(chunk_size + 1) |-> i]
DeltaText == <<0>>
UserText == <<7, 8>>
SystemText == <<9>>
Texts == {EmptyText, LongText}

MkUsage(p, c, t) == [prompt_tokens |-> p, completion_tokens |-> c, total_tokens |-> t]
ZeroUsage == MkUsage(0, 0, 0)
Usages == {ZeroUsage, MkUsage(7, 5, 12)}

ToolBatches == {<<>>, <<"call_1", "call_2">>}

\* What the provider can answer to a non-streamed call.
OkResponses(texts) ==
    [status : {200}, content : texts, tool_calls : ToolBatches, usage : Usages]
ErrResponse ==
    [status |-> 500, content |-> EmptyText, tool_calls |-> <<>>, usage |-> ZeroUsage]
NoResponse ==
    [status |-> 0, content |-> EmptyText, tool_calls |-> <<>>, usage |-> ZeroUsage]
LLMResponses(texts) == OkResponses(texts) \cup {ErrResponse}

AllowedTexts == IF textRounds < MaxTextRounds THEN Texts ELSE {EmptyText}

Msg(role, content, tool_calls, tool_call_id) ==
    [role |-> role, content |-> content, tool_calls |-> tool_calls,
     tool_call_id |-> tool_call_id]

\* PromptBuilder.build_from_request for a new conversation
InitialMessages ==
    <<Msg("system", SystemText, <<>>, NoneVal), Msg("user", UserText, <<>>, NoneVal)>>

----------------------------------------------------------------------------
(* Tool execution as the chat loop sees it *)

\* ToolCallResult for one tool call (agents/tools/executor.py execute_single)
ToolResultFor(call) ==
    [tool_name |-> "search_nodes", tool_call_id |-> call, success |-> TRUE]

\* ToolExecutor.execute_tool_calls: one result per call, in input order
ExecuteToolCalls(tool_calls) ==
    [i \in 1..Len(tool_calls) |-> ToolResultFor(tool_calls[i])]

\* ToolCallResult.to_message
ToMessage(result) ==
    Msg("tool", IF result.success THEN <<1>> ELSE <<2>>, <<>>, result.tool_call_id)

\* new_messages = messages.copy(); append assistant message; append tool results
SpliceToolRound(messages, content, tool_calls) ==
    Append(messages, Msg("assistant", content, tool_calls, NoneVal))
        \o [i \in 1..Len(tool_calls) |-> ToMessage(ExecuteToolCalls(tool_calls)[i])]

\* the copy left out: the round is appended to the list that was passed in
CopyOmitted(was) == was

\* api.py:243, 509  `messages.copy()`: the history in use from here on is a new
\* list, whatever it was before
AliasedAfterCopy(was) == FALSE

\* the caller's list after an append to the history in use: it grows only
\* when the two are the same list
CallerSees(isSame, callers, current) == IF isSame THEN current ELSE callers

\* body of a provider request; `tools` is TRUE when the body carries the
\* tools array
RequestBody(messages, stream, tools, tool_choice) ==
    [messages |-> messages, stream |-> stream, tools |-> tools,
     tool_choice |-> tool_choice]

\* api.py:177-189  call_llm_api: tools and tool_choice are added only
\* `if tools and MCP_ENABLED`
call_llm_api(messages, tools) ==
    IF tools /\ mcp_enabled
      THEN RequestBody(messages, FALSE, TRUE, "auto")
      ELSE RequestBody(messages, FALSE, FALSE, NoneVal)

\* api.py:408-413  request_body of one pass of the streaming sub-loop
RoundRequest(messages) == RequestBody(messages, FALSE, TRUE, "auto")

\* the final request sent with tools all the same
StreamRequestWithTools(messages) == RequestBody(messages, TRUE, TRUE, "auto")

\* api.py:546-553  stream_request_body: messages and stream only
StreamRequest(messages) == RequestBody(messages, TRUE, FALSE, NoneVal)

\* a request as observed: its body and the number of tool rounds begun before it
Sent(body, before) == [body |-> body, after |-> Len(before)]
NoRequest == [body |-> RequestBody(<<>>, FALSE, FALSE, NoneVal), after |-> 0]

\* a tool round as observed: the assistant answer that asked for it, the
\* events yielded when that answer arrived and when execute_tool_calls was
\* entered, and whether the history was extended by it
Round(content, tool_calls, response_at, tools_at, completed) ==
    [content |-> content, tool_calls |-> tool_calls, response_at |-> response_at,
     tools_at |-> tools_at, completed |-> completed]

AddUsage(a, b) ==
    MkUsage(a.prompt_tokens + b.prompt_tokens,
            a.completion_tokens + b.completion_tokens,
            a.total_tokens + b.total_tokens)

\* user.token_balance -= total_tokens // 10, guarded by `if total_tokens`
Deduct(balance, total) == IF total # 0 THEN balance - (total \div 10) ELSE balance

AssistantRow(content, tokens) ==
    [role |-> "assistant", content |-> content, tokens_used |-> tokens]
UserRow == [role |-> "user", content |-> UserText, tokens_used |-> NoneVal]

NoOutcome == [kind |-> "none"]

----------------------------------------------------------------------------
(* Non-streaming turn: chat() and process_tool_calls() *)

\* the bound test off by one: an eleventh batch is executed
ReturnsContentLate(tool_calls, iter) ==
    tool_calls = <<>> \/ iter > MAX_TOOL_ITERATIONS

\* api.py:236  `if not tool_calls or iteration >= MAX_TOOL_ITERATIONS`
ReturnsContent(tool_calls, iter) ==
    tool_calls = <<>> \/ iter >= MAX_TOOL_ITERATIONS

\* the frame returning no text
FrameResultWithoutContent(resp) == [message |-> EmptyText, usage |-> resp.usage]

\* api.py:230-237  the (content, usage) pair a frame of the recursion returns:
\* `usage` is the usage dict of the response this frame was called with
FrameResult(resp) == [message |-> resp.content, usage |-> resp.usage]

\* chat(): lines 272-309, up to and including the first LLM call
ChatBegin ==
    /\ UNCHANGED notChat
    /\ mode = "chat" /\ pc = "start"
    /\ saved' = Append(saved, UserRow)
    /\ \E r \in LLMResponses(AllowedTexts) :
         /\ llmCalls' = llmCalls + 1
         /\ lastRequest' = Sent(call_llm_api(api_messages, mcp_enabled), rounds)
         /\ IF r.status # 200
              THEN /\ pc' = "end"
                   /\ outcome' = [kind |-> "error", status |-> 500]
                   /\ failedCall' = TRUE
                   /\ UNCHANGED <<response, reportedSum, textRounds, answered, answeredText>>
              ELSE /\ pc' = "process"
                   /\ response' = r
                   /\ answered' = r.tool_calls
                   /\ answeredText' = r.content
                   /\ reportedSum' = AddUsage(reportedSum, r.usage)
                   /\ textRounds' = textRounds + (IF r.content # EmptyText THEN 1 ELSE 0)
                   /\ UNCHANGED <<outcome, failedCall>>
    /\ UNCHANGED <<mode, mcp_enabled, iteration, usage, api_messages, full_response,
                   total_tokens, events, token_balance, streamStatus, linesRead,
                   batches, caller_messages, aliased, rounds>>

\* process_tool_calls(): one frame of the recursion that executes a tool batch
\* and calls the LLM again (lines 239-267)
ProcessToolCalls ==
    /\ UNCHANGED notChat
    /\ mode = "chat" /\ pc = "process"
    /\ ~ReturnsContent(response.tool_calls, iteration)
    /\ batches' = batches + 1
    /\ rounds' = Append(rounds, Round(response.content, response.tool_calls,
                                      Len(events), Len(events), TRUE))
    /\ api_messages' = SpliceToolRound(api_messages, response.content, response.tool_calls)
    /\ aliased' = AliasedAfterCopy(aliased)
    /\ caller_messages' = CallerSees(aliased', caller_messages, api_messages')
    /\ lastRequest' = Sent(call_llm_api(api_messages',
                                        iteration + 1 < MAX_TOOL_ITERATIONS), rounds')
    /\ \E r \in LLMResponses(AllowedTexts) :
         /\ llmCalls' = llmCalls + 1
         /\ IF r.status # 200
              THEN /\ pc' = "end"
                   /\ outcome' = [kind |-> "error", status |-> 500]
                   /\ failedCall' = TRUE
                   /\ UNCHANGED <<response, usage, iteration, reportedSum, textRounds,
                                  answered, answeredText>>
              ELSE /\ usage' = AddUsage(response.usage, r.usage)
                   /\ response' = r
                   /\ answered' = r.tool_calls
                   /\ answeredText' = r.content
                   /\ iteration' = iteration + 1
                   /\ reportedSum' = AddUsage(reportedSum, r.usage)
                   /\ textRounds' = textRounds + (IF r.content # EmptyText THEN 1 ELSE 0)
                   /\ UNCHANGED <<pc, outcome, failedCall>>
    /\ UNCHANGED <<mode, mcp_enabled, full_response, total_tokens, events, saved,
                   token_balance, streamStatus, linesRead>>

\* process_tool_calls() returning (line 237), then chat() lines 314-340
ChatFinish ==
    /\ UNCHANGED notChat
    /\ mode = "chat" /\ pc = "process"
    /\ ReturnsContent(response.tool_calls, iteration)
    /\ LET ret == FrameResult(response)
           total == ret.usage.total_tokens
       IN  /\ saved' = Append(saved, AssistantRow(ret.message, total))
           /\ token_balance' = Deduct(token_balance, total)
           /\ outcome' = [kind |-> "ok", message |-> ret.message, usage |-> ret.usage,
                          conversationId |-> ConvId]
    /\ pc' = "end"
    /\ UNCHANGED <<mode, mcp_enabled, iteration, response, usage, api_messages,
                   full_response, total_tokens, events, streamStatus, linesRead,
                   batches, llmCalls, reportedSum, textRounds, failedCall>>
    /\ UNCHANGED roundVars

----------------------------------------------------------------------------
(* Streaming turn: chat_stream() and its generator generate() *)

ContentEvent(text) == [type |-> "content", content |-> text]
StatusEvent(step) == [type |-> "status", step |-> step]
DoneEvent(conv, tokens) == [type |-> "done", conversationId |-> conv, tokens |-> tokens]
ErrorEvent(msg) == [type |-> "error", error |-> msg]

\* the loop stopping at the last full chunk: a shorter remainder is dropped
ChunksWithoutRemainder(content) ==
    [k \in 1..(Len(content) \div chunk_size) |->
        SubSeq(content, (k - 1) * chunk_size + 1, k * chunk_size)]

\* api.py:453-456  for i in range(0, len(content), chunk_size): content[i:i+chunk_size]
Chunks(content) ==
    [k \in 1..((Len(content) + chunk_size - 1) \div chunk_size) |->
        SubSeq(content, (k - 1) * chunk_size + 1, Min(k * chunk_size, Len(content)))]

\* the status event left out
NoStatusEvents(step) == <<>>

\* api.py:483-484  the status event of a tool round, yielded before the batch
\* is executed
StatusEvents(step) == <<StatusEvent(step)>>

ContentEvents(content) ==
    [k \in 1..Len(Chunks(content)) |-> ContentEvent(Chunks(content)[k])]

\* api.py:404  `while iteration < MAX_TOOL_ITERATIONS`
LoopGuard(iter) == iter < MAX_TOOL_ITERATIONS

\* api.py:432-435  a non-200 answer in the sub-loop: one error event, then return
ApiErrorEvents == <<ErrorEvent("API error")>>
\* the `return` after the error event forgotten: the generator goes on
AfterApiErrorFallsThrough == "break"
AfterApiError == "end"

\* api.py:475-476  the early finish: one done event, then return
EarlyDoneEvents(tokens) == <<DoneEvent(ConvId, tokens)>>
AfterEarlyDone == "end"

\* api.py:618-620  except Exception: one error event, generator ends
ExceptEvents == <<ErrorEvent("exception")>>

\* api.py:601  len(str(api_messages_final)): every message contributes its
\* content and at least one character of structure
RECURSIVE StrLen(_)
StrLen(messages) ==
    IF messages = <<>> THEN 0
    ELSE Len(Head(messages).content) + 1 + StrLen(Tail(messages))

\* api.py:599-601  estimate tokens if the provider reported none
FinalTokens(total, full, messages) ==
    IF total = 0 THEN (Len(full) \div 4) + (StrLen(messages) \div 4) ELSE total

ForceFinalMessage == Msg("system", <<3>>, <<>>, NoneVal)

\* usage carried by a chunk of the final stream
ChunkUsage == MkUsage(7, 5, 12)

LineKinds(status) ==
    IF status = 200
      THEN {"content", "usage", "empty_choices", "bad_json", "not_data", "done_marker",
            "read_error"}
      ELSE {"not_data", "read_error"}

\* chat_stream() lines 351-383 and generate() lines 386-402
StreamBegin ==
    /\ UNCHANGED notChat
    /\ mode = "stream" /\ pc = "start"
    /\ saved' = Append(saved, UserRow)
    /\ full_response' = EmptyText
    /\ total_tokens' = 0
    /\ iteration' = 0
    /\ pc' = IF mcp_enabled THEN "loop" ELSE "final"
    /\ UNCHANGED <<mode, mcp_enabled, response, usage, api_messages, events,
                   token_balance, outcome, streamStatus, linesRead, batches, llmCalls,
                   reportedSum, textRounds, failedCall>>
    /\ UNCHANGED roundVars

\* generate(): one pass of the while loop (lines 404-522)
StreamRound ==
    /\ UNCHANGED notChat
    /\ mode = "stream" /\ pc = "loop"
    /\ LoopGuard(iteration)
    /\ \E r \in LLMResponses(AllowedTexts), fault \in {"none", "tools", "db"} :
         /\ llmCalls' = llmCalls + 1
         /\ lastRequest' = Sent(RoundRequest(api_messages), rounds)
         /\ IF r.status # 200
              THEN /\ fault = "none"
                   /\ events' = events \o ApiErrorEvents
                   /\ pc' = AfterApiError
                   /\ failedCall' = TRUE
                   /\ UNCHANGED <<full_response, total_tokens, saved, token_balance,
                                  api_messages, iteration, batches, reportedSum,
                                  textRounds, caller_messages, aliased, rounds,
                                  answered, answeredText>>
              ELSE
                LET tot == total_tokens + r.usage.total_tokens
                    full == full_response \o r.content
                    ev == events \o ContentEvents(r.content)
                IN  /\ total_tokens' = tot
                    /\ full_response' = full
                    /\ reportedSum' = AddUsage(reportedSum, r.usage)
                    /\ textRounds' = textRounds + (IF r.content # EmptyText THEN 1 ELSE 0)
                    /\ UNCHANGED failedCall
                    /\ answered' = r.tool_calls
                    /\ answeredText' = r.content
                    /\ IF r.tool_calls = <<>>
                         THEN /\ UNCHANGED <<api_messages, iteration, batches,
                                             caller_messages, aliased, rounds>>
                              /\ IF full # EmptyText
                                   THEN \/ /\ fault = "none"
                                           /\ saved' = Append(saved, AssistantRow(full, tot))
                                           /\ token_balance' = Deduct(token_balance, tot)
                                           /\ events' = ev \o EarlyDoneEvents(tot)
                                           /\ pc' = AfterEarlyDone
                                        \/ /\ fault = "db"
                                           /\ events' = ev \o ExceptEvents
                                           /\ pc' = "end"
                                           /\ UNCHANGED <<saved, token_balance>>
                                   ELSE /\ fault = "none"
                                        /\ events' = ev
                                        /\ pc' = "break"
                                        /\ UNCHANGED <<saved, token_balance>>
                         ELSE /\ UNCHANGED <<saved, token_balance>>
                              /\ LET told == ev \o StatusEvents(iteration + 1)
                                 IN
                                 \/ /\ fault = "none"
                                    /\ events' = told
                                    /\ batches' = batches + 1
                                    /\ rounds' = Append(rounds,
                                         Round(r.content, r.tool_calls, Len(events),
                                               Len(told), TRUE))
                                    /\ api_messages' =
                                         SpliceToolRound(api_messages, r.content, r.tool_calls)
                                    /\ aliased' = AliasedAfterCopy(aliased)
                                    /\ caller_messages' =
                                         CallerSees(aliased', caller_messages, api_messages')
                                    /\ iteration' = iteration + 1
                                    /\ pc' = "loop"
                                 \/ /\ fault = "tools"
                                    /\ events' = told \o ExceptEvents
                                    /\ rounds' = Append(rounds,
                                         Round(r.content, r.tool_calls, Len(events),
                                               Len(told), FALSE))
                                    /\ pc' = "end"
                                    /\ UNCHANGED <<api_messages, iteration, batches,
                                                   caller_messages, aliased>>
    /\ UNCHANGED <<mode, mcp_enabled, response, usage, outcome, streamStatus, linesRead>>

\* generate(): after the loop (lines 524-536), reached by `break` or by the
\* while condition failing
StreamAfterLoop ==
    /\ UNCHANGED notChat
    /\ mode = "stream"
    /\ \/ pc = "break"
       \/ pc = "loop" /\ ~LoopGuard(iteration)
    /\ api_messages' =
         IF iteration >= MAX_TOOL_ITERATIONS /\ full_response = EmptyText
           THEN Append(api_messages, ForceFinalMessage)
           ELSE api_messages
    /\ caller_messages' = CallerSees(aliased, caller_messages, api_messages')
    /\ pc' = "final"
    /\ UNCHANGED <<mode, mcp_enabled, iteration, response, usage, full_response,
                   total_tokens, events, saved, token_balance, outcome, streamStatus,
                   linesRead, batches, llmCalls, reportedSum, textRounds, failedCall,
                   aliased, lastRequest, rounds, answered, answeredText>>

\* generate(): open the final streaming call (lines 542-566); the status code
\* is logged and not inspected
StreamOpen ==
    /\ UNCHANGED notChat
    /\ mode = "stream" /\ pc = "final"
    /\ \E s \in {200, 500} :
         /\ streamStatus' = s
         /\ failedCall' = (failedCall \/ s # 200)
    /\ llmCalls' = llmCalls + 1
    /\ lastRequest' = Sent(StreamRequest(api_messages), rounds)
    /\ linesRead' = 0
    /\ pc' = "streaming"
    /\ UNCHANGED <<mode, mcp_enabled, iteration, response, usage, api_messages,
                   full_response, total_tokens, events, saved, token_balance, outcome,
                   batches, reportedSum, textRounds, caller_messages, aliased, rounds,
                   answered, answeredText>>

\* generate(): one line of response.iter_lines() (lines 568-596)
StreamLine ==
    /\ UNCHANGED notChat
    /\ mode = "stream" /\ pc = "streaming"
    /\ linesRead < MaxStreamLines
    /\ linesRead' = linesRead + 1
    /\ \E kind \in LineKinds(streamStatus) :
         CASE kind = "content" ->
                /\ full_response' = full_response \o DeltaText
                /\ events' = Append(events, ContentEvent(DeltaText))
                /\ UNCHANGED <<total_tokens, pc>>
           [] kind = "usage" ->
                /\ total_tokens' = total_tokens + ChunkUsage.total_tokens
                /\ UNCHANGED <<full_response, events, pc>>
           [] kind = "done_marker" ->
                /\ pc' = "finish"
                /\ UNCHANGED <<full_response, events, total_tokens>>
           [] kind = "read_error" ->
                /\ events' = events \o ExceptEvents
                /\ pc' = "end"
                /\ UNCHANGED <<full_response, total_tokens>>
           [] OTHER ->
                UNCHANGED <<full_response, events, total_tokens, pc>>
    /\ UNCHANGED <<mode, mcp_enabled, iteration, response, usage, api_messages, saved,
                   token_balance, outcome, streamStatus, batches, llmCalls, reportedSum,
                   textRounds, failedCall>>
    /\ UNCHANGED roundVars

\* generate(): response.iter_lines() is exhausted
StreamExhausted ==
    /\ UNCHANGED notChat
    /\ mode = "stream" /\ pc = "streaming"
    /\ pc' = "finish"
    /\ UNCHANGED <<mode, mcp_enabled, iteration, response, usage, api_messages,
                   full_response, total_tokens, events, saved, token_balance, outcome,
                   streamStatus, linesRead, batches, llmCalls, reportedSum, textRounds,
                   failedCall>>
    /\ UNCHANGED roundVars

\* generate(): lines 599-616, or the except clause when the row cannot be written
StreamFinish ==
    /\ UNCHANGED notChat
    /\ mode = "stream" /\ pc = "finish"
    /\ LET tot == FinalTokens(total_tokens, full_response, api_messages)
       IN  \/ /\ total_tokens' = tot
              /\ saved' = Append(saved, AssistantRow(full_response, tot))
              /\ token_balance' = Deduct(token_balance, tot)
              /\ events' = Append(events, DoneEvent(ConvId, tot))
           \/ /\ total_tokens' = tot
              /\ events' = events \o ExceptEvents
              /\ UNCHANGED <<saved, token_balance>>
    /\ pc' = "end"
    /\ UNCHANGED <<mode, mcp_enabled, iteration, response, usage, api_messages,
                   full_response, outcome, streamStatus, linesRead, batches, llmCalls,
                   reportedSum, textRounds, failedCall>>
    /\ UNCHANGED roundVars

----------------------------------------------------------------------------
(* ToolExecutor.execute_tool_calls, one batch *)

MaxBatch == 2            \* bound: tool calls in one batch

CallIds == {"call_1", "call_2"}
ToolNames == {"search_nodes", "get_node_info"}
\* function.arguments: a JSON object, text that is not JSON, a JSON array,
\* the JSON text `null`
ArgKinds == {"object", "malformed", "array", "null"}
ToolCalls == [id : CallIds, name : ToolNames, arguments : ArgKinds]

RECURSIVE SeqsUpTo(_, _)
SeqsUpTo(S, n) ==
    IF n = 0 THEN {<<>>}
    ELSE SeqsUpTo(S, n - 1) \cup
         {Append(q, x) : q \in {r \in SeqsUpTo(S, n - 1) : Len(r) = n - 1}, x \in S}

\* what `await self.mcp_client.call_tool(...)` can do: return an MCPToolResult
\* (client.py:248,279,285,288,292) or raise
MCPOutcomes ==
    { [kind |-> "return", success |-> TRUE,  data |-> "data", error |-> NoneVal],
      [kind |-> "return", success |-> FALSE, data |-> NoneVal, error |-> "Request timeout"],
      [kind |-> "return", success |-> FALSE, data |-> NoneVal, error |-> "MCP server not running"],
      [kind |-> "return", success |-> FALSE, data |-> NoneVal, error |-> "server error"],
      [kind |-> "raise",  success |-> FALSE, data |-> NoneVal, error |-> "boom"] }

ToolCallResult(name, id, success, result, error) ==
    [tool_name |-> name, tool_call_id |-> id, success |-> success,
     result |-> result, error |-> error]

\* every arguments string is taken as parsed
ArgumentsAlwaysParse(call) == TRUE

\* executor.py:97-103  json.loads(arguments_str) raises JSONDecodeError
ArgumentsParse(call) == call.arguments # "malformed"

\* client.py:325-326  call_tool sends `arguments or {}`: what json.loads
\* returned, an empty mapping in place of a falsy value
ForwardedArguments(call) ==
    IF call.arguments = "null" THEN "empty_object" ELSE call.arguments

\* executor.py:104-109
InvalidArguments(call) ==
    ToolCallResult(call.name, call.id, FALSE, NoneVal, "Invalid JSON arguments")

\* executor.py:112-128  the result built from what call_tool did
ResultOfCall(call, o) ==
    IF o.kind = "raise"
      THEN ToolCallResult(call.name, call.id, FALSE, NoneVal, o.error)
      ELSE ToolCallResult(call.name, call.id, o.success, o.data, o.error)

\* an exception raised by call_tool leaves execute_single
PropagatesRaise(o) == o.kind = "raise"

\* executor.py:121  `except Exception` catches whatever call_tool raises
Propagates(o) == FALSE

\* a failed call leaves no entry in the list
CollectOnlySuccesses(results, r) == IF r.success THEN Append(results, r) ELSE results

\* executor.py:76  results.append(result)
Collect(results, r) == Append(results, r)

\* executor.py:72-76  one pass of the for loop, execute_single included
ExecuteSingle ==
    /\ exPc = "loop" /\ exIdx <= Len(exCalls)
    /\ LET call == exCalls[exIdx]
       IN  IF ~ArgumentsParse(call)
             THEN /\ exResults' = Collect(exResults, InvalidArguments(call))
                  /\ UNCHANGED <<exSent, exPc>>
             ELSE \E o \in MCPOutcomes :
                    /\ exSent' = Append(exSent, [index |-> exIdx, name |-> call.name,
                                                 arguments |-> ForwardedArguments(call),
                                                 outcome |-> o])
                    /\ IF Propagates(o)
                         THEN /\ exPc' = "raised"
                              /\ UNCHANGED exResults
                         ELSE /\ exResults' = Collect(exResults, ResultOfCall(call, o))
                              /\ UNCHANGED exPc
    /\ exIdx' = exIdx + 1
    /\ UNCHANGED <<exCalls, exMessages>>
    /\ UNCHANGED notExec

\* executor.py:78  return results
ExecuteReturn ==
    /\ exPc = "loop" /\ exIdx > Len(exCalls)
    /\ exPc' = "returned"
    /\ UNCHANGED <<exCalls, exIdx, exResults, exSent, exMessages>>
    /\ UNCHANGED notExec

\* api.py:251-258 (and 516-520 in generate()): one tool message per result is
\* appended to the history and the LLM is called again
ExecFeedBack ==
    /\ exPc = "returned"
    /\ exMessages' = [i \in 1..Len(exResults) |-> ToMessage(exResults[i])]
    /\ exPc' = "fed"
    /\ UNCHANGED <<exCalls, exIdx, exResults, exSent>>
    /\ UNCHANGED notExec

ExecIdle ==
    /\ exCalls = <<>>
    /\ exIdx = 1
    /\ exResults = <<>>
    /\ exPc = "idle"
    /\ exSent = <<>>
    /\ exMessages = <<>>

ExecInit ==
    /\ exCalls \in SeqsUpTo(ToolCalls, MaxBatch)
    /\ exIdx = 1
    /\ exResults = <<>>
    /\ exPc = "loop"
    /\ exSent = <<>>
    /\ exMessages = <<>>

----------------------------------------------------------------------------
(* MCPClient: callers of _send_request running on executor threads *)

MaxCalls == 2            \* bound: calls started in total
MaxStarts == 1           \* bound: restarts of the child process

\* two chat requests whose tool calls run on run_in_executor threads
Threads == {"t1", "t2"}
NoThread == "none"

MCPToolResult(success, data, error) ==
    [success |-> success, data |-> data, error |-> error]
NoResult == MCPToolResult(FALSE, NoneVal, NoneVal)

\* client.py:225-227
is_running == m_running /\ m_proc = "alive"

\* client.py:282-288  the result built from a dequeued response
ResultOfResponse(r) ==
    IF r.kind = "error"
      THEN MCPToolResult(FALSE, NoneVal, r.message)
      ELSE MCPToolResult(TRUE, r.result, NoneVal)

SetPc(t, p) == t_pc' = [t_pc EXCEPT ![t] = p]
\* _send_request returns: its locals are gone
Return(t, res) ==
    /\ t_result' = [t_result EXCEPT ![t] = res]
    /\ t_tmp' = [t_tmp EXCEPT ![t] = 0]
    /\ t_reqid' = [t_reqid EXCEPT ![t] = 0]
    /\ t_call' = [t_call EXCEPT ![t] = 0]
    /\ SetPc(t, "idle")

\* what start_server() can do when the server is not running: launch a
\* child that is alive after the grace period, find no npx, or launch a child
\* that exits within the grace period (client.py:95-98, 122, 135-137), or
\* fail to launch one (Popen raises, client.py:143-145)
StartOutcomes == {"ok", "no_npx", "popen_error", "died"}

\* client.py:98,137,141,145  the value start_server returns
StartServerReturns(started) == started = "ok"

\* client.py:95-145  start_server past the test of line 91: self._running is
\* set once Popen has returned (line 122), self._initialized only when the
\* child outlived the grace period (line 140); nothing is reset on a failure
start_server(started) ==
    /\ CASE started = "ok" ->
              /\ m_running' = TRUE
              /\ m_proc' = "alive"
              /\ m_stdin' = <<>>
              /\ m_stdout' = <<>>
              /\ m_starts' = m_starts + 1
              /\ m_stopped' = FALSE
              /\ m_initialized' = TRUE
         [] started = "died" ->
              /\ m_running' = TRUE
              /\ m_proc' = "dead"
              /\ m_stdin' = <<>>
              /\ m_stdout' = <<>>
              /\ m_stopped' = FALSE
              /\ UNCHANGED <<m_starts, m_initialized>>
         [] OTHER ->
              UNCHANGED <<m_running, m_proc, m_stdin, m_stdout, m_starts, m_stopped,
                          m_initialized>>
    /\ m_start_ret' = IF StartServerReturns(started) THEN "true" ELSE "false"

\* a failed start is taken for a running server
EnsureAlwaysTrue(started) == TRUE

\* client.py:229-234  _ensure_server_running returns what start_server returned
EnsureServerRunning(started) == started = "ok"

NotRunning == MCPToolResult(FALSE, NoneVal, "MCP server not running")

\* client.py:247-248  _ensure_server_running, start_server included; requests
\* are served once ChatConfig.ready() has returned
SendBegin(t) ==
    /\ m_booted
    /\ t_pc[t] = "idle"
    /\ m_calls < MaxCalls
    /\ m_calls' = m_calls + 1
    /\ \/ /\ is_running
          /\ SetPc(t, "getid_load")
          /\ t_call' = [t_call EXCEPT ![t] = m_calls + 1]
          /\ UNCHANGED <<m_running, m_proc, m_stdin, m_stdout, m_starts, m_attempts,
                         m_stopped, m_initialized, m_start_ret, t_result, t_tmp,
                         t_reqid>>
       \/ /\ ~is_running
          /\ m_attempts' = m_attempts + 1
          /\ \E started \in StartOutcomes :
               /\ start_server(started)
               /\ IF EnsureServerRunning(started)
                    THEN /\ SetPc(t, "getid_load")
                         /\ t_call' = [t_call EXCEPT ![t] = m_calls + 1]
                         /\ UNCHANGED <<t_result, t_tmp, t_reqid>>
                    ELSE Return(t, NotRunning)
    /\ UNCHANGED <<m_request_id, m_lock, m_queue, m_issued, m_wire, m_delivered,
                   m_timedout, m_booted>>
    /\ UNCHANGED notMCP

\* client.py:380-386  start_mcp_server(), called once by ChatConfig.ready()
\* (apps.py:17-20) before a request is served: start_server on the client the
\* constructor has already tried to start; line 91 returns True at once when
\* the child is running
StartMcpServer ==
    /\ ~m_booted
    /\ m_booted' = TRUE
    /\ IF is_running
         THEN /\ m_start_ret' = "true"
              /\ UNCHANGED <<m_running, m_proc, m_stdin, m_stdout, m_starts, m_stopped,
                             m_initialized>>
         ELSE \E started \in StartOutcomes : start_server(started)
    /\ UNCHANGED <<m_request_id, m_lock, m_queue, t_pc, t_tmp, t_reqid, t_call,
                   t_result, m_calls, m_attempts, m_issued, m_wire, m_delivered,
                   m_timedout>>
    /\ UNCHANGED notMCP

\* client.py:66  `self._request_id += 1`, the load
GetIdLoad(t) ==
    /\ t_pc[t] = "getid_load"
    /\ t_tmp' = [t_tmp EXCEPT ![t] = m_request_id]
    /\ SetPc(t, "getid_store")
    /\ UNCHANGED <<m_request_id, m_lock, m_queue, m_running, m_proc, m_stdin, m_stdout,
                   t_reqid, t_call, t_result, m_calls, m_starts, m_attempts, m_stopped, m_issued, m_wire,
                   m_delivered, m_timedout>>
    /\ UNCHANGED startVars
    /\ UNCHANGED notMCP

\* client.py:66  `self._request_id += 1`, the store
GetIdStore(t) ==
    /\ t_pc[t] = "getid_store"
    /\ m_request_id' = t_tmp[t] + 1
    /\ SetPc(t, "getid_return")
    /\ UNCHANGED <<m_lock, m_queue, m_running, m_proc, m_stdin, m_stdout, t_tmp,
                   t_reqid, t_call, t_result, m_calls, m_starts, m_attempts, m_stopped, m_issued, m_wire,
                   m_delivered, m_timedout>>
    /\ UNCHANGED startVars
    /\ UNCHANGED notMCP

\* client.py:67  `return self._request_id`, and client.py:250-257
GetIdReturn(t) ==
    /\ t_pc[t] = "getid_return"
    /\ t_reqid' = [t_reqid EXCEPT ![t] = m_request_id]
    /\ m_issued' = Append(m_issued, m_request_id)
    /\ SetPc(t, "lock")
    /\ UNCHANGED <<m_request_id, m_lock, m_queue, m_running, m_proc, m_stdin, m_stdout,
                   t_tmp, t_call, t_result, m_calls, m_starts, m_attempts, m_stopped, m_wire,
                   m_delivered, m_timedout>>
    /\ UNCHANGED startVars
    /\ UNCHANGED notMCP

\* client.py:261-267  take the lock and clear old responses
AcquireAndDrain(t) ==
    /\ t_pc[t] = "lock"
    /\ m_lock = NoThread
    /\ m_lock' = t
    /\ m_queue' = <<>>
    /\ SetPc(t, "write")
    /\ UNCHANGED <<m_request_id, m_running, m_proc, m_stdin, m_stdout, t_tmp,
                   t_reqid, t_call, t_result, m_calls, m_starts, m_attempts, m_stopped, m_issued, m_wire,
                   m_delivered, m_timedout>>
    /\ UNCHANGED startVars
    /\ UNCHANGED notMCP

\* client.py:261/273  leaving the `with` block releases the lock
LockAfterWrite == NoThread

\* client.py:271-272  what str(e) is when the write raises: the pipe of a
\* dead child is broken, a released handle has no stdin
WriteError(proc) ==
    IF proc = "dead" THEN "Broken pipe"
    ELSE "'NoneType' object has no attribute 'stdin'"

\* the exception of a failed write leaves _send_request
RequestErrorEscapes == FALSE

\* client.py:290-292  `except Exception` around the lock, the write and the wait
RequestErrorCaught == TRUE

\* client.py:269-272  write and flush the request, then leave the `with`
\* block; without a live child the write raises
WriteRequest(t) ==
    /\ t_pc[t] = "write"
    /\ m_lock' = LockAfterWrite
    /\ IF m_proc = "alive"
         THEN /\ m_stdin' = Append(m_stdin, [id |-> t_reqid[t], call |-> t_call[t]])
              /\ m_wire' = Append(m_wire, t_reqid[t])
              /\ SetPc(t, "wait")
              /\ UNCHANGED <<t_result, t_tmp, t_reqid, t_call>>
         ELSE /\ IF RequestErrorCaught
                   THEN Return(t, MCPToolResult(FALSE, NoneVal, WriteError(m_proc)))
                   ELSE /\ SetPc(t, "raised")
                        /\ UNCHANGED <<t_result, t_tmp, t_reqid, t_call>>
              /\ UNCHANGED <<m_stdin, m_wire>>
    /\ UNCHANGED <<m_request_id, m_queue, m_running, m_proc, m_stdout, m_calls,
                   m_starts, m_attempts, m_stopped, m_issued, m_delivered, m_timedout>>
    /\ UNCHANGED startVars
    /\ UNCHANGED notMCP

\* client.py:276, 281-288  self._response_queue.get returned a response
ReceiveResponse(t) ==
    /\ t_pc[t] = "wait"
    /\ m_queue # <<>>
    /\ LET r == Head(m_queue)
       IN  /\ Return(t, ResultOfResponse(r))
           /\ m_delivered' = m_delivered \cup
                 {[call |-> t_call[t], req_id |-> t_reqid[t], resp_call |-> r.call,
                   resp_id |-> r.id, stale |-> r.call \in m_timedout]}
    /\ m_queue' = Tail(m_queue)
    /\ UNCHANGED <<m_request_id, m_lock, m_running, m_proc, m_stdin, m_stdout, m_calls,
                   m_starts, m_attempts, m_stopped, m_issued, m_wire, m_timedout>>
    /\ UNCHANGED startVars
    /\ UNCHANGED notMCP

\* the child is killed when a call times out
ProcessKilledOnTimeout(proc) == "dead"

\* client.py:277-279  the timeout branch returns and leaves self._process alone
ProcessAfterTimeout(proc) == proc

\* client.py:277-279  the queue stayed empty for 30 seconds
RequestTimeout(t) ==
    /\ t_pc[t] = "wait"
    /\ m_queue = <<>>
    /\ Return(t, MCPToolResult(FALSE, NoneVal, "Request timeout"))
    /\ m_timedout' = m_timedout \cup {t_call[t]}
    /\ m_proc' = ProcessAfterTimeout(m_proc)
    /\ UNCHANGED <<m_request_id, m_lock, m_queue, m_running, m_stdin, m_stdout,
                   m_calls, m_starts, m_attempts, m_stopped, m_issued, m_wire, m_delivered>>
    /\ UNCHANGED startVars
    /\ UNCHANGED notMCP

\* a JSON-RPC response to a request: a result payload, or an error object
\* with a message
Response(req, kind) ==
    [id |-> req.id, call |-> req.call, kind |-> kind,
     result |-> IF kind = "result" THEN [answer_to |-> req.call] ELSE NoneVal,
     message |-> IF kind = "error" THEN "server error" ELSE NoneVal]

\* the child answers the oldest request it has read (wire protocol, one JSON
\* line per response)
ServerReply ==
    /\ m_proc = "alive"
    /\ m_stdin # <<>>
    /\ \E kind \in {"result", "error"} :
         m_stdout' = Append(m_stdout, Response(Head(m_stdin), kind))
    /\ m_stdin' = Tail(m_stdin)
    /\ UNCHANGED <<m_request_id, m_lock, m_queue, m_running, m_proc, t_pc, t_tmp,
                   t_reqid, t_call, t_result, m_calls, m_starts, m_attempts, m_stopped, m_issued, m_wire,
                   m_delivered, m_timedout>>
    /\ UNCHANGED startVars
    /\ UNCHANGED notMCP

\* client.py:147-183  _read_stdout: one complete JSON line is queued
ReadStdout ==
    /\ m_running /\ m_proc # "none"
    /\ m_stdout # <<>>
    /\ m_queue' = Append(m_queue, Head(m_stdout))
    /\ m_stdout' = Tail(m_stdout)
    /\ UNCHANGED <<m_request_id, m_lock, m_running, m_proc, m_stdin, t_pc, t_tmp,
                   t_reqid, t_call, t_result, m_calls, m_starts, m_attempts, m_stopped, m_issued, m_wire,
                   m_delivered, m_timedout>>
    /\ UNCHANGED startVars
    /\ UNCHANGED notMCP

\* the child process exits; requests it had not answered are lost
ProcessDies ==
    /\ m_proc = "alive"
    /\ m_starts < MaxStarts
    /\ m_proc' = "dead"
    /\ m_stdin' = <<>>
    /\ UNCHANGED <<m_request_id, m_lock, m_queue, m_running, m_stdout, t_pc, t_tmp,
                   t_reqid, t_call, t_result, m_calls, m_starts, m_attempts, m_stopped, m_issued, m_wire,
                   m_delivered, m_timedout>>
    /\ UNCHANGED startVars
    /\ UNCHANGED notMCP

\* the handle is kept after the child was terminated
ProcessKeptAfterStop == "dead"

\* client.py:221  self._process = None
ProcessAfterStop == "none"

\* client.py:208-223  stop_server: the flag is cleared, the child terminated
\* (killed after 5 seconds) and the handle released; what the child had read or
\* written and nobody consumed is gone with it
StopServer ==
    /\ m_running' = FALSE
    /\ m_proc' = ProcessAfterStop
    /\ m_stdin' = <<>>
    /\ m_stdout' = <<>>
    /\ m_stopped' = TRUE
    /\ UNCHANGED <<m_request_id, m_lock, m_queue, t_pc, t_tmp, t_reqid, t_call,
                   t_result, m_calls, m_starts, m_attempts, m_issued, m_wire,
                   m_delivered, m_timedout>>
    /\ UNCHANGED startVars
    /\ UNCHANGED notMCP

\* MCPClient.__init__ (client.py:50-57)
MCPFresh ==
    /\ m_request_id = 0
    /\ m_lock = NoThread
    /\ m_queue = <<>>
    /\ m_stdin = <<>>
    /\ m_stdout = <<>>
    /\ t_pc = [t \in Threads |-> "idle"]
    /\ t_tmp = [t \in Threads |-> 0]
    /\ t_reqid = [t \in Threads |-> 0]
    /\ t_call = [t \in Threads |-> 0]
    /\ t_result = [t \in Threads |-> NoResult]
    /\ m_calls = 0
    /\ m_starts = 0
    /\ m_attempts = 0
    /\ m_stopped = FALSE
    /\ m_issued = <<>>
    /\ m_wire = <<>>
    /\ m_delivered = {}
    /\ m_timedout = {}
    /\ m_booted = FALSE

\* start_server at boot (client.py:61-62, apps.py ready()): the child is
\* running, was never started (no npx), or died within the grace period
MCPInit ==
    /\ \/ m_running = TRUE /\ m_proc = "alive" /\ m_initialized = TRUE
             /\ m_start_ret = "true"
       \/ m_running = FALSE /\ m_proc = "none" /\ m_initialized = FALSE
             /\ m_start_ret = "false"
       \/ m_running = TRUE /\ m_proc = "dead" /\ m_initialized = FALSE
             /\ m_start_ret = "false"
    /\ MCPFresh

\* the connection is not used (by the other specifications)
MCPIdle ==
    /\ m_running = TRUE /\ m_proc = "alive" /\ m_initialized = TRUE
    /\ m_start_ret = "true"
    /\ MCPFresh

----------------------------------------------------------------------------
(* get_tool_definitions and the module-level cache (agents/tools/definitions.py) *)

MaxDefCalls == 3         \* bound: calls of get_tool_definitions

\* an entry in the LLM function-calling format
LlmTool(name, description, parameters) ==
    [type |-> "function",
     function |-> [name |-> name, description |-> description,
                   parameters |-> parameters]]

\* definitions.py:18-82  the static tool set
FALLBACK_TOOLS ==
    << LlmTool("search_n8n_nodes", "search", "schema_query"),
       LlmTool("list_node_categories", "list", "schema_none"),
       LlmTool("get_nodes_by_category", "by category", "schema_category") >>

\* an entry of a tools/list result; a key the entry lacks holds Missing
Missing == "missing"
McpTool(name, description, inputSchema) ==
    [name |-> name, description |-> description, inputSchema |-> inputSchema]

\* dict.get(key, default)
Get(value, default) == IF value = Missing THEN default ELSE value

\* definitions.py:114  {"type": "object", "properties": {}}
EmptyObjectSchema == "schema_none"

\* dict.get without its default: an absent key gives None
convert_without_defaults(mcp_tool) ==
    LlmTool(mcp_tool.name, mcp_tool.description, mcp_tool.inputSchema)

\* definitions.py:88-116
convert_mcp_tool_to_llm_format(mcp_tool) ==
    LlmTool(Get(mcp_tool.name, ""), Get(mcp_tool.description, ""),
            Get(mcp_tool.inputSchema, EmptyObjectSchema))

\* the tool lists the server answers tools/list with
ServerToolLists ==
    { <<>>,
      << McpTool("search_nodes", "search", "schema_query") >>,
      << McpTool("search_nodes", "search", "schema_query"),
         McpTool("get_node_info", Missing, Missing) >> }

ListOutcome(kind, success, shape, tools, error) ==
    [kind |-> kind, success |-> success, shape |-> shape, tools |-> tools,
     error |-> error]

\* what `await client.list_tools()` can do (client.py:248,279,285,288,292):
\* a result whose data is {"tools": [...]}, is empty, lacks the "tools" key,
\* is not a dict, or holds a "tools" value that is not a list of dicts; a
\* failed result; or an exception
ListToolsOutcomes ==
    { ListOutcome("return", TRUE, "tools", l, NoneVal) : l \in ServerToolLists }
    \cup { ListOutcome("return", TRUE, sh, <<>>, NoneVal) :
             sh \in {"empty", "no_tools_key", "not_dict", "tools_malformed"} }
    \cup { ListOutcome("return", FALSE, "none", <<>>, e) :
             e \in {"MCP server not running", "Request timeout", "server error"} }
    \cup { ListOutcome("raise", FALSE, "none", <<>>, "boom") }

\* definitions.py:119-141  _load_tools_from_mcp
load_tools_from_mcp(o) ==
    IF o.kind = "raise" THEN FALLBACK_TOOLS
    ELSE IF o.success /\ o.shape # "empty"
      THEN IF o.shape = "tools"
             THEN [i \in 1..Len(o.tools) |-> convert_mcp_tool_to_llm_format(o.tools[i])]
             ELSE FALLBACK_TOOLS
      ELSE FALLBACK_TOOLS

\* an Optional[list]: None, or a list
NoList == [some |-> FALSE, list |-> <<>>]
Some(l) == [some |-> TRUE, list |-> l]

\* truth value of an Optional[list]
Truthy(tools) == tools.some /\ tools.list # <<>>

\* definitions.py:159  `if _cached_tools and not force_reload`
ServesCache(cached, force_reload) == Truthy(cached) /\ ~force_reload

\* the calling contexts: the async chat handler (api.py:308, 257), running on
\* an event loop, and the synchronous generator (api.py:401)
Contexts == {"handler", "worker"}
LoopOf(ctx) == IF ctx = "handler" THEN "running" ELSE worker_loop

\* definitions.py:163-173  asyncio.get_event_loop() raises RuntimeError in a
\* thread without a loop, and a new loop is made; otherwise
\* loop.run_until_complete is called on the thread's loop, which raises
\* RuntimeError when that loop is running or closed
FetchRuns(loop) == loop \in {"none", "open"}

\* definitions.py:167-170  the new loop is set as the thread's loop and closed
LoopAfterFetch(loop) == IF loop = "none" THEN "closed" ELSE loop

DefCall(force, ctx, before, fetched, result, value, failed) ==
    [force |-> force, ctx |-> ctx, before |-> before, fetched |-> fetched,
     outcome |-> result, value |-> value, failed |-> failed]
NoDefCall == DefCall(FALSE, "none", NoList, FALSE, "none", NoList, FALSE)

\* the fetch did not produce a tool list
FetchFailed(o) == ~(o.kind = "return" /\ o.success /\ o.shape = "tools")

\* definitions.py:144-176  get_tool_definitions(force_reload)
GetToolDefinitions ==
    /\ def_calls < MaxDefCalls
    /\ def_calls' = def_calls + 1
    /\ \E force \in BOOLEAN, ctx \in Contexts :
         IF ServesCache(cached_tools, force)
           THEN /\ def_last' = DefCall(force, ctx, cached_tools, FALSE, "returned",
                                       cached_tools, FALSE)
                /\ UNCHANGED <<cached_tools, worker_loop, def_requests>>
           ELSE IF ~FetchRuns(LoopOf(ctx))
             THEN /\ def_last' = DefCall(force, ctx, cached_tools, FALSE, "raised",
                                         NoList, FALSE)
                  /\ UNCHANGED <<cached_tools, worker_loop, def_requests>>
             ELSE \E o \in ListToolsOutcomes :
                    LET tools == load_tools_from_mcp(o)
                    IN  /\ def_requests' = def_requests + 1
                        /\ cached_tools' = Some(tools)
                        /\ worker_loop' = IF ctx = "worker"
                                            THEN LoopAfterFetch(worker_loop)
                                            ELSE worker_loop
                        /\ def_last' = DefCall(force, ctx, cached_tools, TRUE,
                                               "returned", Some(tools), FetchFailed(o))
    /\ UNCHANGED notDefs

\* api.py:487-506  a tool round of generate() sets a new loop as the thread's
\* loop and closes it
StreamToolRoundLoop ==
    /\ worker_loop # "closed"
    /\ worker_loop' = "closed"
    /\ UNCHANGED <<cached_tools, def_calls, def_requests, def_last>>
    /\ UNCHANGED notDefs

\* the next synchronous request is served by a thread that has no loop
NewWorkerThread ==
    /\ worker_loop # "none"
    /\ worker_loop' = "none"
    /\ UNCHANGED <<cached_tools, def_calls, def_requests, def_last>>
    /\ UNCHANGED notDefs

\* definitions.py:15  the module is imported; the request thread has no loop,
\* or an open one (the main thread of a synchronous server)
DefInit ==
    /\ cached_tools = NoList
    /\ worker_loop \in {"none", "open"}
    /\ def_calls = 0
    /\ def_requests = 0
    /\ def_last = NoDefCall

DefIdle ==
    /\ cached_tools = NoList
    /\ worker_loop = "none"
    /\ def_calls = 0
    /\ def_requests = 0
    /\ def_last = NoDefCall

----------------------------------------------------------------------------
(* ToolCallResult.to_message and the JSON text it produces *)

MaxItems == 2            \* bound: entries of a list or dict payload

\* A Python value that came out of json.loads: None, a bool, a number, a str,
\* a list, or a dict (entries in insertion order, keys distinct).  Scalars
\* carry their text in s, containers their entries in items; an entry of a
\* dict is a "pair" holding the key in s and the value in items.
Val(t, s, items) == [t |-> t, s |-> s, items |-> items]
JNull == Val("null", "", <<>>)
JBool(b) == Val("bool", IF b THEN "true" ELSE "false", <<>>)
JNum(n) == Val("num", n, <<>>)
JStr(str) == Val("str", str, <<>>)
JList(items) == Val("list", "", items)
Pair(key, v) == Val("pair", key, <<v>>)
JDict(pairs) == Val("dict", "", pairs)

\* Text is a sequence of tokens: punctuation, a bare word, or a quoted string
Tok(k, s) == [k |-> k, s |-> s]
Punct(c) == Tok("punct", c)
Word(w) == Tok("word", w)
Quoted(str) == Tok("string", str)
Numerals == {"0", "3", "1.5"}

RECURSIVE JoinComma(_)
JoinComma(texts) ==
    IF texts = <<>> THEN <<>>
    ELSE IF Len(texts) = 1 THEN Head(texts)
    ELSE Head(texts) \o <<Punct(",")>> \o JoinComma(Tail(texts))

\* json.dumps(value, ensure_ascii=False)
RECURSIVE json_dumps(_)
json_dumps(v) ==
    CASE v.t = "null" -> <<Word("null")>>
      [] v.t = "bool" -> <<Word(v.s)>>
      [] v.t = "num"  -> <<Word(v.s)>>
      [] v.t = "str"  -> <<Quoted(v.s)>>
      [] v.t = "list" ->
           <<Punct("[")>>
             \o JoinComma([i \in 1..Len(v.items) |-> json_dumps(v.items[i])])
             \o <<Punct("]")>>
      [] v.t = "dict" ->
           <<Punct("{")>>
             \o JoinComma([i \in 1..Len(v.items) |->
                             <<Quoted(v.items[i].s), Punct(":")>>
                                \o json_dumps(v.items[i].items[1])])
             \o <<Punct("}")>>

\* repr(value): None, True and False by their Python names, a str in single
\* quotes, the entries of a container by their repr
SingleQuoted(str) == Tok("pystring", str)
RECURSIVE py_repr(_)
py_repr(v) ==
    CASE v.t = "null" -> <<Word("None")>>
      [] v.t = "bool" -> <<Word(IF v.s = "true" THEN "True" ELSE "False")>>
      [] v.t = "num"  -> <<Word(v.s)>>
      [] v.t = "str"  -> <<SingleQuoted(v.s)>>
      [] v.t = "list" ->
           <<Punct("[")>>
             \o JoinComma([i \in 1..Len(v.items) |-> py_repr(v.items[i])])
             \o <<Punct("]")>>
      [] v.t = "dict" ->
           <<Punct("{")>>
             \o JoinComma([i \in 1..Len(v.items) |->
                             <<SingleQuoted(v.items[i].s), Punct(":")>>
                                \o py_repr(v.items[i].items[1])])
             \o <<Punct("}")>>

\* str(value): the characters of a str as they are, the repr of anything else
py_str(v) ==
    IF v.t = "str" THEN (IF v.s = "" THEN <<>> ELSE <<Word(v.s)>>)
    ELSE py_repr(v)

Parsed(value, rest) == [ok |-> TRUE, value |-> value, rest |-> rest]
ParseError == [ok |-> FALSE, value |-> JNull, rest |-> <<>>]

\* dict[key] = value: an existing key keeps its place and takes the new value
SetKey(pairs, key, v) ==
    IF \E i \in 1..Len(pairs) : pairs[i].s = key
      THEN [i \in 1..Len(pairs) |-> IF pairs[i].s = key THEN Pair(key, v) ELSE pairs[i]]
      ELSE Append(pairs, Pair(key, v))

\* json.loads, by recursive descent over the tokens
RECURSIVE ParseValue(_), ParseElements(_, _), ParseMembers(_, _)
ParseValue(text) ==
    IF text = <<>> THEN ParseError
    ELSE LET h == Head(text)
             r == Tail(text)
         IN  CASE h.k = "string" -> Parsed(JStr(h.s), r)
               [] h.k = "word" ->
                    IF h.s = "null" THEN Parsed(JNull, r)
                    ELSE IF h.s \in {"true", "false"} THEN Parsed(Val("bool", h.s, <<>>), r)
                    ELSE IF h.s \in Numerals THEN Parsed(JNum(h.s), r)
                    ELSE ParseError
               [] h = Punct("[") ->
                    IF r # <<>> /\ Head(r) = Punct("]")
                      THEN Parsed(JList(<<>>), Tail(r))
                      ELSE ParseElements(r, <<>>)
               [] h = Punct("{") ->
                    IF r # <<>> /\ Head(r) = Punct("}")
                      THEN Parsed(JDict(<<>>), Tail(r))
                      ELSE ParseMembers(r, <<>>)
               [] OTHER -> ParseError
ParseElements(text, acc) ==
    LET e == ParseValue(text)
    IN  IF ~e.ok \/ e.rest = <<>> THEN ParseError
        ELSE IF Head(e.rest) = Punct(",")
          THEN ParseElements(Tail(e.rest), Append(acc, e.value))
        ELSE IF Head(e.rest) = Punct("]")
          THEN Parsed(JList(Append(acc, e.value)), Tail(e.rest))
        ELSE ParseError
ParseMembers(text, acc) ==
    IF Len(text) < 3 \/ text[1].k # "string" \/ text[2] # Punct(":") THEN ParseError
    ELSE LET e == ParseValue(SubSeq(text, 3, Len(text)))
         IN  IF ~e.ok \/ e.rest = <<>> THEN ParseError
             ELSE IF Head(e.rest) = Punct(",")
               THEN ParseMembers(Tail(e.rest), SetKey(acc, text[1].s, e.value))
             ELSE IF Head(e.rest) = Punct("}")
               THEN Parsed(JDict(SetKey(acc, text[1].s, e.value)), Tail(e.rest))
             ELSE ParseError

\* json.loads(text): the value, or JSONDecodeError
json_loads(text) ==
    LET p == ParseValue(text)
    IN  IF p.ok /\ p.rest = <<>> THEN [ok |-> TRUE, value |-> p.value]
        ELSE [ok |-> FALSE, value |-> JNull]
NotParsed == [ok |-> FALSE, value |-> JNull]

\* only a list payload is serialised as JSON
DumpsListsOnly(v) == v.t = "list"

\* executor.py:29  isinstance(self.result, (dict, list))
DumpsAsJson(v) == v.t \in {"dict", "list"}

\* executor.py:26-37  to_message: json.dumps for a dict or list payload, str()
\* for any other; {"error": <message>} for a failed result
to_message(result) ==
    [role |-> "tool",
     tool_call_id |-> result.tool_call_id,
     content |->
        IF result.success
          THEN IF DumpsAsJson(result.result)
                 THEN json_dumps(result.result)
                 ELSE py_str(result.result)
          ELSE json_dumps(JDict(<<Pair("error", JStr(result.error))>>))]
NoMessage == [role |-> "none", tool_call_id |-> "", content |-> <<>>]

\* the payloads a tools/call response can carry in "result" (client.py:288
\* response.get("result"): any JSON value, None when the key is absent)
ScalarPayloads ==
    {JNull, JBool(TRUE), JNum("3"), JStr("abc"), JStr("3"), JStr("")}
DictKey(i) == <<"a", "b", "c", "d">>[i]
FlatPayloads ==
    {JList(q) : q \in SeqsUpTo(ScalarPayloads, MaxItems)}
    \cup {JDict([i \in 1..Len(q) |-> Pair(DictKey(i), q[i])]) :
            q \in SeqsUpTo(ScalarPayloads, MaxItems)}
\* the shape of an MCP tools/call result
McpTextResult ==
    JDict(<<Pair("content",
                 JList(<<JDict(<<Pair("type", JStr("text")),
                                 Pair("text", JStr("abc"))>>)>>))>>)
Payloads ==
    ScalarPayloads \cup FlatPayloads
    \cup {JList(<<v>>) : v \in FlatPayloads}
    \cup {JDict(<<Pair("a", v)>>) : v \in FlatPayloads}
    \cup {McpTextResult}

\* the results execute_single builds (executor.py:104-128): a failed one
\* carries an error message and no payload
ErrorMessages == {"Invalid JSON arguments", "Request timeout", "boom"}
MadeResults ==
    {ToolCallResult("search_nodes", id, TRUE, v, NoneVal) :
        id \in CallIds, v \in Payloads}
    \cup {ToolCallResult("search_nodes", id, FALSE, JNull, e) :
            id \in CallIds, e \in ErrorMessages}

\* result.to_message()
ToMessageCall ==
    /\ tm_pc = "made"
    /\ tm_message' = to_message(tm_result)
    /\ tm_pc' = "converted"
    /\ UNCHANGED <<tm_result, tm_parsed>>
    /\ UNCHANGED notMsg

\* the reader of the message parses its content: json.loads(message["content"])
ParseContent ==
    /\ tm_pc = "converted"
    /\ tm_parsed' = json_loads(tm_message.content)
    /\ tm_pc' = "parsed"
    /\ UNCHANGED <<tm_result, tm_message>>
    /\ UNCHANGED notMsg

MsgInit ==
    /\ tm_result \in MadeResults
    /\ tm_pc = "made"
    /\ tm_message = NoMessage
    /\ tm_parsed = NotParsed

MsgIdle ==
    /\ tm_result = ToolCallResult("search_nodes", "call_1", FALSE, JNull, "boom")
    /\ tm_pc = "idle"
    /\ tm_message = NoMessage
    /\ tm_parsed = NotParsed

----------------------------------------------------------------------------
(* Stored conversations: the memory manager (agents/memory/manager.py) and    *)
(* the conversation endpoints (apps/chat/api.py)                             *)

MaxStored == 3           \* bound: message rows inserted
MaxWindow == 2           \* bound: largest configured max_messages

Users == {"admin", "user"}
NoUser == "none"

\* conversation ids the database hands out (uuid4, never reused), a well-formed
\* UUID that is not stored, and what else a client can put in conversationId
\* (schemas.py:71 str | None) or in the path (api.py:103 str)
ConvIds == {"uuid-1", "uuid-2"}
UnknownId == "uuid-9"
MalformedId == "not-a-uuid"
EmptyId == ""
AbsentId == NoneVal
ClientIds == ConvIds \cup {UnknownId, MalformedId, EmptyId, AbsentId}
PathIds == ConvIds \cup {UnknownId, MalformedId}

\* UUIDField.to_python accepts the text
IsUuid(id) == id \in ConvIds \cup {UnknownId}

Titles == {"Admin Conv", "renamed"}
NoRow == [state |-> "free", user |-> NoUser, title |-> ""]
ConvRow(user, title) == [state |-> "stored", user |-> user, title |-> title]
DeletedRow == [state |-> "deleted", user |-> NoUser, title |-> ""]

Stored(id) == id \in ConvIds /\ db_conversations[id].state = "stored"

\* ChatMessage row (models.py:33-48)
MessageRow(conversation, created_at, serial) ==
    [conversation |-> conversation, created_at |-> created_at, serial |-> serial]

\* ChatConversation.objects.get(id=..., [user=...]): the row, DoesNotExist, or
\* ValidationError for text that is not a UUID (models.py:18 UUIDField)
Lookup(id, users) ==
    IF ~IsUuid(id) THEN "ValidationError"
    ELSE IF Stored(id) /\ db_conversations[id].user \in users THEN "found"
    ELSE "DoesNotExist"

\* .filter(conversation_id=...)
MessagesOf(id) == SelectSeq(db_messages, LAMBDA row : row.conversation = id)
Range(q) == {q[i] : i \in 1..Len(q)}

\* .order_by("-created_at"): the orders the database may return the rows in,
\* rows with equal created_at in either order
DescOrders(rows) ==
    {q \in [1..Len(rows) -> Range(rows)] :
        /\ \A i, j \in 1..Len(rows) : i # j => q[i] # q[j]
        /\ \A i, j \in 1..Len(rows) : i < j => q[i].created_at >= q[j].created_at}

\* [:n]
Take(q, n) == SubSeq(q, 1, Min(n, Len(q)))

\* the list is left newest first
LeftNewestFirst(q) == q

\* manager.py:76  messages.reverse()
OldestFirst(q) == [i \in 1..Len(q) |-> q[Len(q) + 1 - i]]

ApiCall(op, user, id, status, title, messages) ==
    [op |-> op, user |-> user, id |-> id, status |-> status, title |-> title,
     messages |-> messages]
NoCall == ApiCall("none", NoUser, "", 0, "", <<>>)

Context(result, id, caller, conversation, messages, summary) ==
    [op |-> "context", outcome |-> result, id |-> id, caller |-> caller,
     conversation |-> conversation, messages |-> messages, summary |-> summary]
EmptyContext(id, caller) == Context("returned", id, caller, NoneVal, <<>>, NoneVal)
Raised(id, caller, exception) == Context(exception, id, caller, NoneVal, <<>>, NoneVal)

\* the callers of build_from_request: chat (api.py:271, async def) and
\* chat_stream (api.py:344, def).  A synchronous ORM query made on a thread
\* with a running event loop raises SynchronousOnlyOperation.
Callers == {"chat", "chat_stream"}
OrmAllowed(caller) == caller # "chat"

\* manager.py:34-85  get_conversation_context: what it can return or raise
get_conversation_context(id, caller) ==
    IF id \in {AbsentId, EmptyId}
      THEN {EmptyContext(id, caller)}
    ELSE IF ~OrmAllowed(caller)
      THEN {Raised(id, caller, "SynchronousOnlyOperation")}
    ELSE IF Lookup(id, Users) = "ValidationError"
      THEN {Raised(id, caller, "ValidationError")}
    ELSE IF Lookup(id, Users) = "DoesNotExist"
      THEN {EmptyContext(id, caller)}
    ELSE {Context("returned", id, caller, id, OldestFirst(Take(q, max_messages)),
                  NoneVal) : q \in DescOrders(MessagesOf(id))}

\* manager.py:34-85  get_conversation_context
GetConversationContext ==
    /\ st_last = NoCall
    /\ \E id \in ClientIds, caller \in Callers :
         st_last' \in get_conversation_context(id, caller)
    /\ UNCHANGED <<db_conversations, db_messages, db_clock, max_messages>>
    /\ UNCHANGED notStore

\* a chat turn up to its first LLM request: whose turn, the conversationId of
\* the request, the stored rows put into the request's messages
\* (builder.py:202-211), and the conversation the turn goes on in
Turn(user, id, caller, result, history, conversation) ==
    [op |-> "turn", user |-> user, id |-> id, caller |-> caller,
     outcome |-> result, history |-> history, conversation |-> conversation]

\* api.py:288-289, 365-366  a conversation of another user is not continued
filter_by_user(conversation, user) ==
    IF conversation # NoneVal /\ db_conversations[conversation].user # user
      THEN NoneVal ELSE conversation

\* api.py:271-305 chat, api.py:344-382 chat_stream: the messages are built
\* from the conversationId of the request, then the conversation is filtered
\* by its owner, created when there is none, and the user message saved
ChatTurnPrepare ==
    /\ st_last = NoCall
    /\ Len(db_messages) < MaxStored /\ db_clock < MaxStored
    /\ \E user \in Users, id \in ClientIds, caller \in Callers :
       \E context \in get_conversation_context(id, caller) :
         IF context.outcome # "returned"
           THEN /\ st_last' = Turn(user, id, caller, context.outcome, <<>>, NoneVal)
                /\ UNCHANGED <<db_conversations, db_messages, db_clock>>
           ELSE \E new \in ConvIds, tick \in {0, 1} :
                  LET own == filter_by_user(context.conversation, user)
                      conversation == IF own = NoneVal THEN new ELSE own
                  IN  /\ own = NoneVal => db_conversations[new].state = "free"
                      /\ own # NoneVal => new = own
                      /\ db_conversations' =
                           IF own = NoneVal
                             THEN [db_conversations EXCEPT ![new] = ConvRow(user, "Admin Conv")]
                             ELSE db_conversations
                      /\ db_clock' = db_clock + tick
                      /\ db_messages' =
                           Append(db_messages,
                                  MessageRow(conversation, db_clock + tick,
                                             Len(db_messages) + 1))
                      /\ st_last' = Turn(user, id, caller, "sent", context.messages,
                                         conversation)
    /\ UNCHANGED max_messages
    /\ UNCHANGED notStore

\* the status of a request whose lookup did not find the row: HttpError(404)
\* for DoesNotExist (api.py:111-112), an unhandled ValidationError otherwise
FailedStatus(found) == IF found = "DoesNotExist" THEN 404 ELSE 500

\* api.py:88-99  POST /conversations (and api.py:292-297, 369-374)
CreateConversation ==
    /\ st_last = NoCall
    /\ \E user \in Users, id \in ConvIds :
         /\ db_conversations[id].state = "free"
         /\ db_conversations' = [db_conversations EXCEPT ![id] = ConvRow(user, "Admin Conv")]
         /\ st_last' = ApiCall("create", user, id, 200, "Admin Conv", <<>>)
    /\ UNCHANGED <<db_messages, db_clock, max_messages>>
    /\ UNCHANGED notStore

\* api.py:301-305, 319-324  ChatMessage.objects.create: created_at is the time
\* of the insert (auto_now_add)
CreateMessage ==
    /\ st_last = NoCall
    /\ Len(db_messages) < MaxStored /\ db_clock < MaxStored
    /\ \E id \in ConvIds, tick \in {0, 1} :
         /\ Stored(id)
         /\ db_clock' = db_clock + tick
         /\ db_messages' = Append(db_messages,
                                  MessageRow(id, db_clock + tick, Len(db_messages) + 1))
    /\ UNCHANGED <<db_conversations, max_messages, st_last>>
    /\ UNCHANGED notStore

\* the caller's user may see the row
OwnerOnly(user) == {user}
\* the user filter left out of the query
AnyOwner(user) == Users

\* api.py:109,132,148  .get(id=conversation_id, user=user)
OwnerFilter(user) == OwnerOnly(user)

\* api.py:102-123  GET /conversations/{conversation_id}
GetConversation ==
    /\ st_last = NoCall
    /\ \E user \in Users, id \in PathIds :
         LET found == Lookup(id, OwnerFilter(user))
         IN  IF found = "found"
               THEN st_last' = ApiCall("get", user, id, 200, db_conversations[id].title,
                                       MessagesOf(id))
               ELSE st_last' = ApiCall("get", user, id, FailedStatus(found), "", <<>>)
    /\ UNCHANGED <<db_conversations, db_messages, db_clock, max_messages>>
    /\ UNCHANGED notStore

\* api.py:126-139  PUT /conversations/{conversation_id}
UpdateConversation ==
    /\ st_last = NoCall
    /\ \E user \in Users, id \in PathIds, title \in Titles :
         LET found == Lookup(id, OwnerFilter(user))
         IN  IF found = "found"
               THEN /\ db_conversations' =
                         [db_conversations EXCEPT ![id].title = title]
                    /\ st_last' = ApiCall("update", user, id, 200, title, <<>>)
               ELSE /\ st_last' = ApiCall("update", user, id, FailedStatus(found), "", <<>>)
                    /\ UNCHANGED db_conversations
    /\ UNCHANGED <<db_messages, db_clock, max_messages>>
    /\ UNCHANGED notStore

\* api.py:142-153  DELETE /conversations/{conversation_id}; the messages go
\* with the conversation (models.py:37-39 on_delete=CASCADE)
DeleteConversation ==
    /\ st_last = NoCall
    /\ \E user \in Users, id \in PathIds :
         LET found == Lookup(id, OwnerFilter(user))
         IN  IF found = "found"
               THEN /\ db_conversations' = [db_conversations EXCEPT ![id] = DeletedRow]
                    /\ db_messages' =
                         SelectSeq(db_messages, LAMBDA row : row.conversation # id)
                    /\ st_last' = ApiCall("delete", user, id, 200, "", <<>>)
               ELSE /\ st_last' = ApiCall("delete", user, id, FailedStatus(found), "", <<>>)
                    /\ UNCHANGED <<db_conversations, db_messages>>
    /\ UNCHANGED <<db_clock, max_messages>>
    /\ UNCHANGED notStore

\* the call returns to its caller; requests are answered one at a time
Answered ==
    /\ st_last # NoCall
    /\ st_last' = NoCall
    /\ UNCHANGED <<db_conversations, db_messages, db_clock, max_messages>>
    /\ UNCHANGED notStore

\* an empty database; max_messages is what the agent configuration says
\* (builder.py:70, default 10)
StoreInit ==
    /\ db_conversations = [id \in ConvIds |-> NoRow]
    /\ db_messages = <<>>
    /\ db_clock = 0
    /\ max_messages \in 1..MaxWindow
    /\ st_last = NoCall

StoreIdle ==
    /\ db_conversations = [id \in ConvIds |-> NoRow]
    /\ db_messages = <<>>
    /\ db_clock = 0
    /\ max_messages = 1
    /\ st_last = NoCall

----------------------------------------------------------------------------
(* A reading call of get_tool_definitions beside a reloading one *)

\* an earlier call of get_tool_definitions, before the two threads start:
\* it caches what its fetch gave (definitions.py:175)
CacheFilledEarlier ==
    /\ rl_pc = "idle" /\ rd_pc = "idle" /\ ~cached_tools.some
    /\ \E o \in ListToolsOutcomes : cached_tools' = Some(load_tools_from_mcp(o))
    /\ UNCHANGED <<reloadVars, notReload>>

\* definitions.py:159-173  the reloading call (force_reload, or a cache it
\* finds empty) goes on to client.list_tools(), which takes the client's lock
ReloadBegin ==
    /\ rl_pc = "idle" /\ list_lock = "none"
    /\ rl_pc' = "fetching"
    /\ list_lock' = "reload"
    /\ rd_overlap' = (rd_overlap \/ rd_pc \notin {"idle", "returned"})
    /\ UNCHANGED <<cached_tools, rl_tools, rd_pc, rd_tools, rd_value, rd_prev,
                   rd_waited, notReload>>

\* definitions.py:119-141, 169/173  _load_tools_from_mcp returns
ReloadFetched ==
    /\ rl_pc = "fetching"
    /\ \E o \in ListToolsOutcomes : rl_tools' = load_tools_from_mcp(o)
    /\ rl_pc' = "loaded"
    /\ list_lock' = "none"
    /\ UNCHANGED <<cached_tools, rd_pc, rd_tools, rd_value, rd_prev, rd_waited,
                   rd_overlap,
                   notReload>>

\* definitions.py:175  `_cached_tools = tools`: the global is bound to the
\* finished list in one store
ReloadStore ==
    /\ rl_pc = "loaded"
    /\ cached_tools' = Some(rl_tools)
    /\ rl_pc' = "done"
    /\ UNCHANGED <<rl_tools, rd_pc, rd_tools, rd_value, list_lock, rd_prev,
                   rd_waited, rd_overlap,
                   notReload>>

\* definitions.py:159  the reading call, made without force_reload, tests
\* the global
ReaderTest ==
    /\ rd_pc = "idle"
    /\ rd_prev' = cached_tools
    /\ rd_overlap' = (rd_overlap \/ rl_pc \in {"fetching", "loaded"})
    /\ rd_pc' = IF ServesCache(cached_tools, FALSE) THEN "serve" ELSE "miss"
    /\ UNCHANGED <<cached_tools, rl_pc, rl_tools, rd_tools, rd_value, list_lock,
                   rd_waited, notReload>>

\* definitions.py:160  `return _cached_tools` loads the global once more
ReaderServe ==
    /\ rd_pc = "serve"
    /\ rd_value' = cached_tools
    /\ rd_pc' = "returned"
    /\ UNCHANGED <<cached_tools, rl_pc, rl_tools, rd_tools, list_lock, rd_prev,
                   rd_waited, rd_overlap,
                   notReload>>

\* client.py:260  `with self._lock`: the reading call goes on to
\* client.list_tools() and finds the lock held by the reloading call
ReaderWaits ==
    /\ rd_pc = "miss" /\ list_lock = "reload" /\ ~rd_waited
    /\ rd_waited' = TRUE
    /\ UNCHANGED <<cached_tools, rl_pc, rl_tools, rd_pc, rd_tools, rd_value,
                   list_lock, rd_prev, rd_overlap,
                   notReload>>

ReaderFetchBegin ==
    /\ rd_pc = "miss" /\ list_lock = "none"
    /\ rd_pc' = "fetching"
    /\ list_lock' = "reader"
    /\ UNCHANGED <<cached_tools, rl_pc, rl_tools, rd_tools, rd_value, rd_prev,
                   rd_waited, rd_overlap,
                   notReload>>

ReaderFetched ==
    /\ rd_pc = "fetching"
    /\ \E o \in ListToolsOutcomes : rd_tools' = load_tools_from_mcp(o)
    /\ rd_pc' = "loaded"
    /\ list_lock' = "none"
    /\ UNCHANGED <<cached_tools, rl_pc, rl_tools, rd_value, rd_prev, rd_waited,
                   rd_overlap,
                   notReload>>

\* definitions.py:175-176
ReaderStore ==
    /\ rd_pc = "loaded"
    /\ cached_tools' = Some(rd_tools)
    /\ rd_value' = Some(rd_tools)
    /\ rd_pc' = "returned"
    /\ UNCHANGED <<rl_pc, rl_tools, rd_tools, list_lock, rd_prev, rd_waited,
                   rd_overlap,
                   notReload>>

\* no call of get_tool_definitions is running
ReloadIdle ==
    /\ rl_pc = "idle" /\ rl_tools = <<>>
    /\ rd_pc = "idle" /\ rd_tools = <<>>
    /\ rd_value = NoList
    /\ list_lock = "none"
    /\ rd_prev = NoList
    /\ rd_waited = FALSE
    /\ rd_overlap = FALSE

----------------------------------------------------------------------------
(* MCPClient._read_stdout and _read_stderr *)

MaxLines == 3            \* bound: lines the child writes to its two streams

\* the lines the child can write to its output: a JSON-RPC response, another
\* JSON object, plain text, an object cut short, a JSON array, a blank line,
\* an object holding the token NaN, and an object holding an integer of more
\* digits than int() converts
OutputLines ==
    {"response", "object", "text", "truncated", "array", "blank", "nan_object",
     "huge_number"}

\* the line is a JSON object by the grammar of JSON
IsJsonObject(line) == line \in {"response", "object", "huge_number"}

\* the line is a JSON text by the grammar of JSON
IsJson(line) == IsJsonObject(line) \/ line = "array"

\* client.py:167-170  line.strip().startswith('{')
StartsWithBrace(line) ==
    line \in {"response", "object", "truncated", "nan_object", "huge_number"}

\* client.py:172  json.loads(line) on a line that starts with a brace: the
\* value, a JSONDecodeError, or the ValueError of the integer conversion;
\* NaN and Infinity are accepted as numbers
json_loads_line(line) ==
    CASE line \in {"response", "object", "nan_object"} -> "value"
      [] line = "huge_number" -> "ValueError"
      [] OTHER -> "JSONDecodeError"

\* the child writes one complete line to its output
ChildPrints ==
    /\ rs_printed < MaxLines
    /\ rs_printed' = rs_printed + 1
    /\ \E line \in OutputLines : rs_stdout' = Append(rs_stdout, line)
    /\ UNCHANGED <<rs_stderr, rs_queue, rs_running, rs_reader, rs_call, rs_result>>
    /\ UNCHANGED notReader

\* the child writes one line to its error stream
ChildPrintsError ==
    /\ rs_printed < MaxLines
    /\ rs_printed' = rs_printed + 1
    /\ rs_stderr' = Append(rs_stderr, "text")
    /\ UNCHANGED <<rs_stdout, rs_queue, rs_running, rs_reader, rs_call, rs_result>>
    /\ UNCHANGED notReader

\* client.py:150-183  _read_stdout has read one line up to its newline: a
\* parsed value is queued, a JSONDecodeError is logged, any other exception
\* reaches `except Exception` and ends the loop
ReadLine ==
    /\ rs_running /\ rs_reader = "reading"
    /\ rs_stdout # <<>>
    /\ rs_stdout' = Tail(rs_stdout)
    /\ LET line == Head(rs_stdout)
           parsed == json_loads_line(line)
       IN  IF ~StartsWithBrace(line)
             THEN UNCHANGED <<rs_queue, rs_reader>>
             ELSE CASE parsed = "value" ->
                         /\ rs_queue' = Append(rs_queue, line)
                         /\ UNCHANGED rs_reader
                    [] parsed = "JSONDecodeError" ->
                         UNCHANGED <<rs_queue, rs_reader>>
                    [] OTHER ->
                         /\ rs_reader' = "ended"
                         /\ UNCHANGED rs_queue
    /\ UNCHANGED <<rs_stderr, rs_running, rs_call, rs_result, rs_printed>>
    /\ UNCHANGED notReader

\* client.py:187-206  _read_stderr has read one line: it is logged
ReadErrorLine ==
    /\ rs_running
    /\ rs_stderr # <<>>
    /\ rs_stderr' = Tail(rs_stderr)
    /\ UNCHANGED <<rs_stdout, rs_queue, rs_running, rs_reader, rs_call, rs_result,
                   rs_printed>>
    /\ UNCHANGED notReader

\* client.py:276, 282-288  the waiting call takes the first queued value
CallReceives ==
    /\ rs_call = "waiting"
    /\ rs_queue # <<>>
    /\ rs_queue' = Tail(rs_queue)
    /\ rs_call' = "returned"
    /\ rs_result' = "success"
    /\ UNCHANGED <<rs_stdout, rs_stderr, rs_running, rs_reader, rs_printed>>
    /\ UNCHANGED notReader

\* client.py:277-279  the queue stayed empty for 30 seconds
CallTimesOut ==
    /\ rs_call = "waiting"
    /\ rs_queue = <<>>
    /\ rs_call' = "returned"
    /\ rs_result' = "Request timeout"
    /\ UNCHANGED <<rs_stdout, rs_stderr, rs_queue, rs_running, rs_reader, rs_printed>>
    /\ UNCHANGED notReader

\* client.py:122-130, 271-276  the child runs, both reader threads run, one
\* request has been written and its caller waits
ReaderInit ==
    /\ rs_stdout = <<>> /\ rs_stderr = <<>> /\ rs_queue = <<>>
    /\ rs_running = TRUE
    /\ rs_reader = "reading"
    /\ rs_call = "waiting"
    /\ rs_result = NoneVal
    /\ rs_printed = 0

\* no call is waiting
ReaderIdle ==
    /\ rs_stdout = <<>> /\ rs_stderr = <<>> /\ rs_queue = <<>>
    /\ rs_running = TRUE
    /\ rs_reader = "reading"
    /\ rs_call = "returned"
    /\ rs_result = NoneVal
    /\ rs_printed = 0

----------------------------------------------------------------------------
(* _load_tools_from_mcp on a well-formed tools/list result *)

MaxTools == 2            \* bound: entries of a tools/list result

\* the entries a server can list: each of the three keys present or absent
NativeTools ==
    { McpTool(n, d, sch) : n \in {"search_nodes", Missing},
                           d \in {"search", Missing},
                           sch \in {"schema_query", Missing} }

\* definitions.py:125-135  the result of list_tools() is handed over
LoadTools ==
    /\ tr_pc = "fetched"
    /\ tr_output' =
         load_tools_from_mcp(ListOutcome("return", TRUE, "tools", tr_input, NoneVal))
    /\ tr_pc' = "returned"
    /\ UNCHANGED tr_input
    /\ UNCHANGED notTranslate

\* client.list_tools() has returned {"tools": [...]}
TranslateInit ==
    /\ tr_input \in SeqsUpTo(NativeTools, MaxTools)
    /\ tr_output = <<>>
    /\ tr_pc = "fetched"

TranslateIdle ==
    /\ tr_input = <<>>
    /\ tr_output = <<>>
    /\ tr_pc = "returned"

----------------------------------------------------------------------------
(* start_server and stop_server of one MCPClient, statement by statement *)

MaxChildren == 3         \* bound: children launched on one connection
MaxProcessOps == 3       \* bound: start_server, stop_server and calls begun

NoProcess == 0
Children == 1..MaxChildren
Launched == {c \in Children : ps_children[c] # "none"}

\* client.py:91, 227  self._running and self._process and
\* self._process.poll() is None
server_is_running ==
    ps_running /\ ps_process # NoProcess /\ ps_children[ps_process] = "alive"

PsGoto(t, p) == ps_pc' = [ps_pc EXCEPT ![t] = p]
PsReturn(t, value) ==
    /\ ps_ret' = [ps_ret EXCEPT ![t] = value]
    /\ PsGoto(t, "idle")

BeginOp(t) ==
    /\ ps_pc[t] = "idle"
    /\ ps_ops < MaxProcessOps
    /\ ps_ops' = ps_ops + 1

\* client.py:380-386, 84  start_server is called
CallStartServer(t) ==
    /\ BeginOp(t)
    /\ PsGoto(t, "test")
    /\ UNCHANGED <<ps_process, ps_running, ps_children, ps_ret>>
    /\ UNCHANGED notProcess

\* client.py:229-234, 247  a call finds the server running, or goes on to
\* start_server
EnsureRunning(t) ==
    /\ BeginOp(t)
    /\ IF server_is_running
         THEN PsReturn(t, "true")
         ELSE PsGoto(t, "test") /\ UNCHANGED ps_ret
    /\ UNCHANGED <<ps_process, ps_running, ps_children>>
    /\ UNCHANGED notProcess

\* client.py:91-98  the early return, and the test for npx
StartTest(t) ==
    /\ ps_pc[t] = "test"
    /\ \/ /\ server_is_running
          /\ PsReturn(t, "true")
       \/ /\ ~server_is_running
          /\ \/ PsReturn(t, "false")
             \/ PsGoto(t, "popen") /\ UNCHANGED ps_ret
    /\ UNCHANGED <<ps_process, ps_running, ps_children, ps_ops>>
    /\ UNCHANGED notProcess

\* client.py:100-121, 143-145  a child is launched and assigned, or Popen
\* raises
StartPopen(t) ==
    /\ ps_pc[t] = "popen"
    /\ \/ \E child \in Children :
            /\ ps_children[child] = "none"
            /\ \A c \in Children : c < child => ps_children[c] # "none"
            /\ ps_children' = [ps_children EXCEPT ![child] = "alive"]
            /\ ps_process' = child
            /\ PsGoto(t, "launched")
            /\ UNCHANGED ps_ret
       \/ /\ PsReturn(t, "false")
          /\ UNCHANGED <<ps_process, ps_children>>
    /\ UNCHANGED <<ps_running, ps_ops>>
    /\ UNCHANGED notProcess

\* client.py:122-133  self._running = True, the reader threads, the sleep
StartMarkRunning(t) ==
    /\ ps_pc[t] = "launched"
    /\ ps_running' = TRUE
    /\ PsGoto(t, "poll")
    /\ UNCHANGED <<ps_process, ps_children, ps_ret, ps_ops>>
    /\ UNCHANGED notProcess

\* client.py:135-145  self._process.poll() after the grace period; with the
\* handle reset meanwhile the attribute error is caught at line 143
StartPoll(t) ==
    /\ ps_pc[t] = "poll"
    /\ IF ps_process # NoProcess /\ ps_children[ps_process] = "alive"
         THEN PsReturn(t, "true")
         ELSE PsReturn(t, "false")
    /\ UNCHANGED <<ps_process, ps_running, ps_children, ps_ops>>
    /\ UNCHANGED notProcess

\* client.py:208-210  stop_server: self._running = False
StopBegin(t) ==
    /\ BeginOp(t)
    /\ ps_running' = FALSE
    /\ PsGoto(t, "stop_test")
    /\ UNCHANGED <<ps_process, ps_children, ps_ret>>
    /\ UNCHANGED notProcess

\* client.py:212-220  terminate (or kill) the child the handle names
StopTerminate(t) ==
    /\ ps_pc[t] = "stop_test"
    /\ IF ps_process = NoProcess
         THEN PsGoto(t, "idle") /\ UNCHANGED ps_children
         ELSE /\ ps_children' = [ps_children EXCEPT ![ps_process] = "dead"]
              /\ PsGoto(t, "stop_clear")
    /\ UNCHANGED <<ps_process, ps_running, ps_ret, ps_ops>>
    /\ UNCHANGED notProcess

\* client.py:221  self._process = None
StopClear(t) ==
    /\ ps_pc[t] = "stop_clear"
    /\ ps_process' = NoProcess
    /\ PsGoto(t, "idle")
    /\ UNCHANGED <<ps_running, ps_children, ps_ret, ps_ops>>
    /\ UNCHANGED notProcess

\* a child exits by itself
ChildExits ==
    /\ \E child \in Children :
         /\ ps_children[child] = "alive"
         /\ ps_children' = [ps_children EXCEPT ![child] = "dead"]
    /\ UNCHANGED <<ps_process, ps_running, ps_pc, ps_ret, ps_ops>>
    /\ UNCHANGED notProcess

\* client.py:50-57  the fields of a connection before its first start_server
ProcessInit ==
    /\ ps_process = NoProcess
    /\ ps_running = FALSE
    /\ ps_children = [c \in Children |-> "none"]
    /\ ps_pc = [t \in Threads |-> "idle"]
    /\ ps_ret = [t \in Threads |-> "none"]
    /\ ps_ops = 0

ProcessIdle ==
    /\ ps_process = NoProcess
    /\ ps_running = FALSE
    /\ ps_children = [c \in Children |-> "none"]
    /\ ps_pc = [t \in Threads |-> "idle"]
    /\ ps_ret = [t \in Threads |-> "none"]
    /\ ps_ops = MaxProcessOps

----------------------------------------------------------------------------
(* The token balance of one user over several chat requests *)

MaxTurns == 3            \* bound: chat turns begun

\* total_tokens of a turn: none reported, fewer than ten, and two larger sums
TurnTotals == {0, 7, 25, 40}

\* utils/auth.py:34-47  AuthBearer.authenticate loads the user's row into a
\* User object of this request; api.py:273, 351 get_current_user returns it
Authenticate(t) ==
    /\ bl_pc[t] = "idle"
    /\ bl_turns < MaxTurns
    /\ bl_turns' = bl_turns + 1
    /\ bl_user' = [bl_user EXCEPT ![t] = bl_stored]
    /\ bl_pc' = [bl_pc EXCEPT ![t] = "turn"]
    /\ UNCHANGED <<bl_stored, bl_due>>
    /\ UNCHANGED notBalance

\* api.py:326-329, 471-473, 611-614  the turn has its total_tokens:
\* user.token_balance -= total_tokens // 10, then user.save() writes the
\* object's value to the row
TurnDeducts(t) ==
    /\ bl_pc[t] = "turn"
    /\ \E total \in TurnTotals :
         /\ bl_user' = [bl_user EXCEPT ![t] = Deduct(bl_user[t], total)]
         /\ bl_stored' = IF total # 0 THEN Deduct(bl_user[t], total) ELSE bl_stored
         /\ bl_due' = bl_due + (total \div 10)
    /\ bl_pc' = [bl_pc EXCEPT ![t] = "idle"]
    /\ UNCHANGED bl_turns
    /\ UNCHANGED notBalance

BalanceInit ==
    /\ bl_stored = StartBalance
    /\ bl_user = [t \in Threads |-> StartBalance]
    /\ bl_pc = [t \in Threads |-> "idle"]
    /\ bl_due = 0
    /\ bl_turns = 0

BalanceIdle ==
    /\ bl_stored = StartBalance
    /\ bl_user = [t \in Threads |-> StartBalance]
    /\ bl_pc = [t \in Threads |-> "idle"]
    /\ bl_due = 0
    /\ bl_turns = MaxTurns

LaterIdle == ReloadIdle /\ ReaderIdle /\ TranslateIdle /\ ProcessIdle /\ BalanceIdle

----------------------------------------------------------------------------
(* The chat turn specification *)

ChatInit ==
    /\ mode \in {"chat", "stream"}
    /\ mcp_enabled \in BOOLEAN
    /\ pc = "start"
    /\ iteration = 0
    /\ response = NoResponse
    /\ usage = ZeroUsage
    /\ api_messages = InitialMessages
    /\ full_response = EmptyText
    /\ total_tokens = 0
    /\ events = <<>>
    /\ saved = <<>>
    /\ token_balance = StartBalance
    /\ outcome = NoOutcome
    /\ streamStatus = 0
    /\ linesRead = 0
    /\ batches = 0
    /\ llmCalls = 0
    /\ reportedSum = ZeroUsage
    /\ textRounds = 0
    /\ failedCall = FALSE
    /\ caller_messages = InitialMessages
    /\ aliased = TRUE
    /\ lastRequest = NoRequest
    /\ rounds = <<>>
    /\ answered = <<>>
    /\ answeredText = EmptyText

vars == <<chatVars, execVars, mcpVars, defVars, msgVars, storeVars, laterVars>>

\* the turn is not running (used by the other specifications)
ChatIdle ==
    /\ mode = "chat"
    /\ mcp_enabled = TRUE
    /\ pc = "idle"
    /\ iteration = 0
    /\ response = NoResponse
    /\ usage = ZeroUsage
    /\ api_messages = InitialMessages
    /\ full_response = EmptyText
    /\ total_tokens = 0
    /\ events = <<>>
    /\ saved = <<>>
    /\ token_balance = StartBalance
    /\ outcome = NoOutcome
    /\ streamStatus = 0
    /\ linesRead = 0
    /\ batches = 0
    /\ llmCalls = 0
    /\ reportedSum = ZeroUsage
    /\ textRounds = 0
    /\ failedCall = FALSE
    /\ caller_messages = InitialMessages
    /\ aliased = TRUE
    /\ lastRequest = NoRequest
    /\ rounds = <<>>
    /\ answered = <<>>
    /\ answeredText = EmptyText

Init == ChatInit /\ ExecIdle /\ MCPIdle /\ DefIdle /\ MsgIdle /\ StoreIdle /\ LaterIdle

Next ==
    \/ ChatBegin
    \/ ProcessToolCalls
    \/ ChatFinish
    \/ StreamBegin
    \/ StreamRound
    \/ StreamAfterLoop
    \/ StreamOpen
    \/ StreamLine
    \/ StreamExhausted
    \/ StreamFinish

Spec == Init /\ [][Next]_vars

FairSpec == Spec /\ WF_vars(Next)

----------------------------------------------------------------------------
(* The executor specification *)

InitExec == ChatIdle /\ ExecInit /\ MCPIdle /\ DefIdle /\ MsgIdle /\ StoreIdle /\ LaterIdle

NextExec ==
    \/ ExecuteSingle
    \/ ExecuteReturn
    \/ ExecFeedBack

SpecExec == InitExec /\ [][NextExec]_vars

----------------------------------------------------------------------------
(* The connection specification *)

InitMCP == ChatIdle /\ ExecIdle /\ MCPInit /\ DefIdle /\ MsgIdle /\ StoreIdle /\ LaterIdle

NextMCP ==
    \/ StartMcpServer
    \/ \E t \in Threads : SendBegin(t)
    \/ \E t \in Threads : GetIdLoad(t)
    \/ \E t \in Threads : GetIdStore(t)
    \/ \E t \in Threads : GetIdReturn(t)
    \/ \E t \in Threads : AcquireAndDrain(t)
    \/ \E t \in Threads : WriteRequest(t)
    \/ \E t \in Threads : ReceiveResponse(t)
    \/ \E t \in Threads : RequestTimeout(t)
    \/ ServerReply
    \/ ReadStdout
    \/ ProcessDies
    \/ StopServer

SpecMCP == InitMCP /\ [][NextMCP]_vars

----------------------------------------------------------------------------
(* The tool definition cache specification *)

InitDefs == ChatIdle /\ ExecIdle /\ MCPIdle /\ DefInit /\ MsgIdle /\ StoreIdle /\ LaterIdle

NextDefs ==
    \/ GetToolDefinitions
    \/ StreamToolRoundLoop
    \/ NewWorkerThread

SpecDefs == InitDefs /\ [][NextDefs]_vars

----------------------------------------------------------------------------
(* The cache reader specification *)

InitReload == ChatIdle /\ ExecIdle /\ MCPIdle /\ DefIdle /\ MsgIdle /\ StoreIdle /\ LaterIdle

InitReader ==
    /\ ChatIdle /\ ExecIdle /\ MCPIdle /\ DefIdle /\ MsgIdle /\ StoreIdle
    /\ ReloadIdle /\ ReaderInit /\ TranslateIdle /\ ProcessIdle /\ BalanceIdle

NextReader ==
    \/ ChildPrints
    \/ ChildPrintsError
    \/ ReadLine
    \/ ReadErrorLine
    \/ CallReceives
    \/ CallTimesOut

SpecReader == InitReader /\ [][NextReader]_vars

InitTranslate ==
    /\ ChatIdle /\ ExecIdle /\ MCPIdle /\ DefIdle /\ MsgIdle /\ StoreIdle
    /\ ReloadIdle /\ ReaderIdle /\ TranslateInit /\ ProcessIdle /\ BalanceIdle

NextTranslate == LoadTools

SpecTranslate == InitTranslate /\ [][NextTranslate]_vars

InitProcess ==
    /\ ChatIdle /\ ExecIdle /\ MCPIdle /\ DefIdle /\ MsgIdle /\ StoreIdle
    /\ ReloadIdle /\ ReaderIdle /\ TranslateIdle /\ ProcessInit /\ BalanceIdle

NextProcess ==
    \/ \E t \in Threads :
         \/ CallStartServer(t)
         \/ EnsureRunning(t)
         \/ StartTest(t)
         \/ StartPopen(t)
         \/ StartMarkRunning(t)
         \/ StartPoll(t)
         \/ StopBegin(t)
         \/ StopTerminate(t)
         \/ StopClear(t)
    \/ ChildExits

SpecProcess == InitProcess /\ [][NextProcess]_vars

InitBalance ==
    /\ ChatIdle /\ ExecIdle /\ MCPIdle /\ DefIdle /\ MsgIdle /\ StoreIdle
    /\ ReloadIdle /\ ReaderIdle /\ TranslateIdle /\ ProcessIdle /\ BalanceInit

NextBalance == \E t \in Threads : Authenticate(t) \/ TurnDeducts(t)

SpecBalance == InitBalance /\ [][NextBalance]_vars

NextReload ==
    \/ CacheFilledEarlier
    \/ ReloadBegin
    \/ ReloadFetched
    \/ ReloadStore
    \/ ReaderTest
    \/ ReaderServe
    \/ ReaderWaits
    \/ ReaderFetchBegin
    \/ ReaderFetched
    \/ ReaderStore

SpecReload == InitReload /\ [][NextReload]_vars

----------------------------------------------------------------------------
(* The tool message specification *)

InitMsg == ChatIdle /\ ExecIdle /\ MCPIdle /\ DefIdle /\ MsgInit /\ StoreIdle /\ LaterIdle

NextMsg ==
    \/ ToMessageCall
    \/ ParseContent

SpecMsg == InitMsg /\ [][NextMsg]_vars

----------------------------------------------------------------------------
(* The stored conversations specification *)

InitStore == ChatIdle /\ ExecIdle /\ MCPIdle /\ DefIdle /\ MsgIdle /\ StoreInit /\ LaterIdle

NextStore ==
    \/ CreateConversation
    \/ CreateMessage
    \/ GetConversationContext
    \/ ChatTurnPrepare
    \/ GetConversation
    \/ UpdateConversation
    \/ DeleteConversation
    \/ Answered

SpecStore == InitStore /\ [][NextStore]_vars

----------------------------------------------------------------------------
(* Properties of the chat turn *)

IsTerminal(e) == e.type \in {"done", "error"}
LastEvent == events[Len(events)]
AssistantRows == SelectSeq(saved, LAMBDA row : row.role = "assistant")
ContentTexts == [i \in 1..Len(events) |->
                    IF events[i].type = "content" THEN events[i].content ELSE EmptyText]
DeliveredText == Concat(ContentTexts)
IsPrefix(s, t) == Len(s) <= Len(t) /\ SubSeq(t, 1, Len(s)) = s

\* C1: a chat turn, streaming or not, executes at most MAX_TOOL_ITERATIONS tool
\* batches and makes at most one LLM call more than that; a non-streaming
\* turn whose responses all carry tool calls returns the content of the last
\* response instead of failing, a streaming one leaves the sub-loop for the
\* final streaming call; and every turn ends.
BoundedToolRounds ==
    /\ iteration <= MAX_TOOL_ITERATIONS
    /\ batches <= MAX_TOOL_ITERATIONS
    /\ llmCalls <= MAX_TOOL_ITERATIONS + 1
    /\ (mode = "chat" /\ pc = "end" /\ batches = MAX_TOOL_ITERATIONS /\ ~failedCall)
          => (outcome.kind = "ok" /\ outcome.message = response.content)
    /\ (mode = "stream" /\ batches = MAX_TOOL_ITERATIONS)
          => (pc # "break" /\ (pc = "loop" => ENABLED StreamAfterLoop))
UsageIsSumOfRounds ==
    (mode = "chat" /\ pc = "end" /\ outcome.kind = "ok")
        => outcome.usage = reportedSum

\* C8: a streaming response carries at most one terminal event and nothing
\* after it, it has ended exactly when the terminal event is out, a done
\* event names the conversation, and events once emitted stay emitted
OneTerminalLast ==
    mode = "stream" =>
        /\ \A i \in 1..Len(events) : IsTerminal(events[i]) => i = Len(events)
        /\ pc = "end" <=> (events # <<>> /\ IsTerminal(LastEvent))
        /\ \A i \in 1..Len(events) :
              events[i].type = "done" => events[i].conversationId # NoneVal
StreamEndsWithOneTerminal == []OneTerminalLast /\ [][IsPrefix(events, events')]_vars

\* C8 witness: content was streamed and the response then ended with an error
WitnessErrorAfterContent ==
    /\ mode = "stream" /\ pc = "end"
    /\ LastEvent.type = "error"
    /\ \E i \in 1..Len(events) : events[i].type = "content"

\* C9: a completed turn has written exactly one assistant row holding the text
\* delivered to the client and the total token count of the turn, and has
\* deducted once from that total
TurnCompleted ==
    /\ pc = "end"
    /\ IF mode = "chat" THEN outcome.kind = "ok"
       ELSE events # <<>> /\ LastEvent.type = "done"
TurnTotal == IF mode = "chat" THEN reportedSum.total_tokens ELSE total_tokens
OneRowOneDeduction ==
    TurnCompleted =>
        /\ Len(AssistantRows) = 1
        /\ AssistantRows[1].content =
              (IF mode = "chat" THEN outcome.message ELSE DeliveredText)
        /\ AssistantRows[1].tokens_used = TurnTotal
        /\ token_balance = Deduct(StartBalance, TurnTotal)

\* C10: once a provider call of the turn returned a non-2xx status the turn
\* ends in an error (error response / error event and no done event), no
\* further provider call is made and no assistant row is written
ProviderErrorEndsTurn ==
    (failedCall /\ pc = "end") =>
        /\ mode = "chat" => outcome.kind = "error"
        /\ mode = "stream" =>
              /\ LastEvent.type = "error"
              /\ \A i \in 1..Len(events) : events[i].type # "done"
        /\ Len(AssistantRows) = 0
ProviderErrorIsFatal ==
    /\ []ProviderErrorEndsTurn
    /\ [][failedCall => llmCalls' = llmCalls]_vars

----------------------------------------------------------------------------
(* Properties of the executor *)

Forwarded(i) == \E k \in 1..Len(exSent) : exSent[k].index = i

NonMappingArgumentsRejected ==
    /\ exPc \in {"returned", "fed"} => Len(exResults) = Len(exCalls)
    /\ \A i \in 1..Len(exResults) :
          exCalls[i].arguments \in {"array", "null"}
              => (~exResults[i].success /\ ~Forwarded(i))

\* C16: no failure of a tool-server call leaves execute_tool_calls: the call
\* gets a failed result carrying the error message, the rest of the batch
\* is executed, and the failed result is fed back as a tool message
ToolServerFailuresAreResults ==
    /\ exPc # "raised"
    /\ exPc \in {"returned", "fed"} => Len(exResults) = Len(exCalls)
    /\ \A k \in 1..Len(exSent) :
          LET o == exSent[k].outcome
              i == exSent[k].index
          IN  (o.kind = "raise" \/ ~o.success)
                 => /\ i <= Len(exResults)
                    /\ ~exResults[i].success
                    /\ exResults[i].error = o.error
    /\ exPc = "fed" =>
          /\ Len(exMessages) = Len(exCalls)
          /\ \A i \in 1..Len(exMessages) :
                /\ exMessages[i].role = "tool"
                /\ exMessages[i].tool_call_id = exCalls[i].id
                /\ exMessages[i].content # <<1>> <=> ~exResults[i].success

\* C16 witness: call_tool raised for the first call, the second call
\* succeeded, and both results were fed back
WitnessFailureFedBack ==
    /\ exPc = "fed" /\ Len(exCalls) = 2
    /\ exSent[1].outcome.kind = "raise" /\ exResults[1].error = "boom"
    /\ exResults[2].success
    /\ exMessages[1].content = <<2>> /\ exMessages[2].content = <<1>>

----------------------------------------------------------------------------
(* Properties of the connection *)

Waiting == {t \in Threads : t_pc[t] = "wait"}
StrictlyIncreasing(q) == \A i, j \in 1..Len(q) : i < j => q[i] < q[j]

\* C4: at most one caller has written a request and is still waiting for its
\* response
OneRequestInFlight == Cardinality(Waiting) <= 1

\* C5: a response returned to a caller answers that caller's own request, and
\* no response is returned to two calls
ResponseBelongsToCaller ==
    /\ \A d \in m_delivered : d.resp_call = d.call /\ d.resp_id = d.req_id
    /\ \A d, e \in m_delivered : d.resp_call = e.resp_call => d = e

\* C6: the response to a call that has timed out is never returned as the
\* result of another call
NoStaleResponseReturned == \A d \in m_delivered : ~d.stale

\* C7: request ids are unique and strictly increasing, both in the order they
\* are assigned and in the order they reach the child, and only the holder of
\* the lock is writing
IdsUniqueAndIncreasing ==
    /\ StrictlyIncreasing(m_issued)
    /\ StrictlyIncreasing(m_wire)
    /\ Cardinality({t \in Threads : t_pc[t] = "write"}) <= 1

\* a caller leaves _send_request in this step
Returns(t) == t_pc[t] # "idle" /\ t_pc'[t] = "idle"
\* a call enters _send_request in this step
Enters == m_calls' = m_calls + 1
OthersKeepResult(t) == \A u \in Threads \ {t} : t_result'[u] = t_result[u]

\* C17: _send_request never raises and returns a result whenever it ends: the
\* failed result with the error's message for a response with an error
\* field, a failed result for a timeout and for a write that fails, and the
\* successful result holding the result payload for any other response
SendRequestNeverRaised == \A t \in Threads : t_pc[t] # "raised"
SendRequestResults ==
    \A t \in Threads :
      /\ Returns(t) =>
            /\ t_result'[t].success => t_result'[t].error = NoneVal
            /\ ~t_result'[t].success =>
                  (t_result'[t].error # NoneVal /\ t_result'[t].data = NoneVal)
      /\ (Returns(t) /\ t_pc[t] = "wait" /\ m_queue # <<>>) =>
            IF Head(m_queue).kind = "error"
              THEN t_result'[t] = MCPToolResult(FALSE, NoneVal, Head(m_queue).message)
              ELSE t_result'[t] = MCPToolResult(TRUE, Head(m_queue).result, NoneVal)
      /\ (Returns(t) /\ t_pc[t] = "wait" /\ m_queue = <<>>) =>
            t_result'[t] = MCPToolResult(FALSE, NoneVal, "Request timeout")
      /\ (t_pc[t] = "write" /\ t_pc'[t] # "write" /\ m_proc # "alive") =>
            (Returns(t) /\ ~t_result'[t].success /\ t_result'[t].error # NoneVal)
TimeoutLeavesConnection ==
    /\ \A t \in Threads :
          (Returns(t) /\ t_pc[t] = "wait" /\ m_queue = <<>>) =>
              /\ t_result'[t] = MCPToolResult(FALSE, NoneVal, "Request timeout")
              /\ UNCHANGED <<m_running, m_proc, m_stdin, m_stdout, m_starts, m_attempts,
                             m_lock>>
    /\ (Enters /\ is_running) =>
          /\ UNCHANGED <<m_running, m_proc, m_stdin, m_stdout, m_starts, m_attempts>>
          /\ \E t \in Threads : t_pc[t] = "idle" /\ t_pc'[t] = "getid_load"
TimeoutKeepsConnection == [][TimeoutLeavesConnection]_vars

\* C18 witness: after a call timed out, a later call has been written to the
\* child started at boot, which is still running
WitnessCallAfterTimeout ==
    /\ m_timedout # {} /\ m_attempts = 0 /\ is_running
    /\ \E t \in Threads :
          /\ t_pc[t] = "wait"
          /\ \A c \in m_timedout : t_call[t] > c

\* C19: a call that finds the connection not running makes one start attempt
\* first; when the start fails the call returns the failure and no id is
\* assigned and nothing written; when it succeeds the call goes on on the new
\* child, and a request is only ever written to the live child
RestartThenFailOrProceed ==
    /\ Enters =>
          IF is_running
            THEN UNCHANGED <<m_attempts, m_starts>>
            ELSE /\ m_attempts' = m_attempts + 1
                 /\ IF is_running'
                      THEN /\ m_starts' = m_starts + 1
                           /\ m_stdin' = <<>>
                           /\ \E t \in Threads :
                                t_pc[t] = "idle" /\ t_pc'[t] = "getid_load"
                      ELSE /\ t_pc' = t_pc
                           /\ \E t \in Threads :
                                /\ t_pc[t] = "idle"
                                /\ t_result'[t] =
                                     MCPToolResult(FALSE, NoneVal, "MCP server not running")
                                /\ OthersKeepResult(t)
                           /\ UNCHANGED <<m_request_id, m_issued, m_wire>>
    /\ m_wire' # m_wire =>
          (m_proc = "alive" /\ m_proc' = "alive" /\ Len(m_stdin') = Len(m_stdin) + 1)
OneRestartAttempt ==
    /\ [][RestartThenFailOrProceed]_vars
    /\ [](m_attempts <= m_calls /\ (m_stdin # <<>> => m_proc = "alive"))

\* C19 witness: the first call failed on a start that failed; the second
\* started the child and its request is in the pipe of the new child
WitnessRestartedAndWritten ==
    /\ m_calls = 2 /\ m_attempts = 2 /\ m_starts = 1
    /\ \E t \in Threads : t_result[t].error = "MCP server not running"
    /\ Len(m_wire) = 1 /\ m_stdin # <<>> /\ is_running

\* C20: once stop_server has returned the flag is false and the handle
\* released, whatever the state it was called in; it can be called again, and
\* on a stopped or never started connection it changes nothing
StoppedIsStopped ==
    m_stopped => (~m_running /\ m_proc = "none" /\ ~is_running /\ ENABLED StopServer)
StopAgainChangesNothing ==
    (StopServer /\ ~m_running /\ m_proc = "none")
        => UNCHANGED <<m_request_id, m_lock, m_queue, m_running, m_proc, m_stdin,
                       m_stdout, t_pc, t_tmp, t_reqid, t_result>>
StopServerReleases == []StoppedIsStopped /\ [][StopAgainChangesNothing]_vars

\* C20 witness: stop_server returned while a call was waiting for its response
WitnessStoppedInFlight ==
    /\ m_stopped /\ ~m_running /\ m_proc = "none"
    /\ \E t \in Threads : t_pc[t] = "wait"

\* start_server is called in this step, by start_mcp_server or by
\* _ensure_server_running
StartCalled == m_booted' # m_booted \/ m_attempts' # m_attempts

\* C21: start_server returns true only with the child alive after the grace
\* period and false when npx is not found, the launch fails or the child
\* exits within the grace period; after a start that returned false
\* is_running is false and the ready flag is false
StartReturnsTruthfully ==
    StartCalled =>
        /\ m_start_ret' \in {"true", "false"}
        /\ m_start_ret' = "true" => (m_running' /\ m_proc' = "alive")
        /\ m_start_ret' = "false" => ~is_running'
StartFailureLeavesNotReady ==
    (StartCalled /\ m_start_ret' = "false") => ~m_initialized'
StartServerContract ==
    [][StartReturnsTruthfully /\ StartFailureLeavesNotReady]_vars

----------------------------------------------------------------------------
(* Properties of the tool definition cache *)

\* C11: get_tool_definitions never raises, in the handler or in the
\* generator, and a fetch that fails returns the static fallback set
FetchFailureFallsBack ==
    /\ def_last.outcome # "raised"
    /\ (def_last.fetched /\ def_last.failed) => def_last.value = Some(FALLBACK_TOOLS)

\* C12: once the cache has been assigned by a fetch, a call without
\* force_reload returns the cached value and issues no tools/list request,
\* whichever list was fetched, the empty list included
CachedValueIsServed ==
    (def_last.outcome # "none" /\ ~def_last.force /\ def_last.before.some)
        => /\ def_last.outcome = "returned"
           /\ ~def_last.fetched
           /\ def_last.value = def_last.before

\* C13: a call with force_reload issues a tools/list request even when the
\* cache is populated, and the value it returns is the cached value afterwards
ForcedReloadRefetches ==
    (def_last.outcome # "none" /\ def_last.force)
        => /\ def_last.outcome = "returned"
           /\ def_last.fetched
           /\ cached_tools = def_last.value

----------------------------------------------------------------------------
(* Properties of the tool message *)

ErrorObject(message) == JDict(<<Pair("error", JStr(message))>>)

\* C22: the message of a result has role "tool" and the call id of the result;
\* its content is the JSON text of {"error": <message>} for a failed result
\* and the JSON text of the payload for a successful one, whatever the type of
\* the payload
MessageIsJsonOfResult ==
    tm_pc \in {"converted", "parsed"} =>
        /\ tm_message.role = "tool"
        /\ tm_message.tool_call_id = tm_result.tool_call_id
        /\ ~tm_result.success =>
              tm_message.content = json_dumps(ErrorObject(tm_result.error))
        /\ tm_result.success =>
              tm_message.content = json_dumps(tm_result.result)

\* C23: the content of the message of a successful result whose payload is a
\* dict parses, as JSON, to a value equal to the payload
DictPayloadRoundTrips ==
    (tm_pc = "parsed" /\ tm_result.success /\ tm_result.result.t = "dict")
        => (tm_parsed.ok /\ tm_parsed.value = tm_result.result)

\* C23 witness: a nested dict payload was converted and parsed back
WitnessNestedDictParsed ==
    /\ tm_pc = "parsed" /\ tm_result.success
    /\ tm_result.result = McpTextResult
    /\ tm_parsed.ok /\ tm_parsed.value = McpTextResult

----------------------------------------------------------------------------
(* Properties of the stored conversations *)

\* a call of one of these operations is made in this step
Called(ops) == st_last = NoCall /\ st_last'.op \in ops

\* C24: get_conversation_context does not raise and returns no conversation,
\* no messages and no summary when the id is absent and when it does not
\* resolve to a stored conversation, whatever the client sent as the id
UnknownIdIsNewConversation ==
    [][Called({"context"}) =>
         (~Stored(st_last'.id) =>
             /\ st_last'.outcome = "returned"
             /\ st_last'.conversation = NoneVal
             /\ st_last'.messages = <<>>
             /\ st_last'.summary = NoneVal)]_vars

\* C25: for a stored conversation get_conversation_context returns at most
\* max_messages messages, all of that conversation, none twice, as many as
\* there are up to the maximum; no message left out is more recent than one
\* returned, and the messages are in chronological order, oldest first
ReturnsRecentWindow ==
    (Called({"context"}) /\ st_last'.outcome = "returned"
         /\ st_last'.conversation # NoneVal) =>
        LET ms == st_last'.messages
            all == MessagesOf(st_last'.id)
        IN  /\ Len(ms) <= max_messages
            /\ Len(ms) = Min(max_messages, Len(all))
            /\ Range(ms) \subseteq Range(all)
            /\ \A i, j \in 1..Len(ms) : i # j => ms[i] # ms[j]
            /\ \A i, j \in 1..Len(ms) : i < j => ms[i].created_at <= ms[j].created_at
            /\ \A r \in Range(all) \ Range(ms), m \in Range(ms) :
                  r.created_at <= m.created_at
ContextIsRecentWindow == [][ReturnsRecentWindow]_vars

\* C25 witness: a conversation holding more messages than the maximum, with
\* distinct times, gave its last max_messages messages, oldest first
WitnessWindowTruncated ==
    /\ st_last.op = "context" /\ st_last.outcome = "returned"
    /\ max_messages = 2
    /\ Len(MessagesOf(st_last.id)) = 3
    /\ Len(st_last.messages) = 2
    /\ st_last.messages[1] = MessagesOf(st_last.id)[2]
    /\ st_last.messages[2] = MessagesOf(st_last.id)[3]
    /\ st_last.messages[1].created_at < st_last.messages[2].created_at

\* the conversation is stored and belongs to somebody else
OwnedByOther(user, id) == Stored(id) /\ db_conversations[id].user # user

\* C26: GET, PUT and DELETE on /conversations/{id} by a user who does not own
\* the stored conversation answer 404, return nothing of it, and leave the
\* conversation and its messages as they were
ForeignRequestDenied ==
    (Called({"get", "update", "delete"})
         /\ OwnedByOther(st_last'.user, st_last'.id)) =>
        /\ st_last'.status = 404
        /\ st_last'.title = "" /\ st_last'.messages = <<>>
        /\ UNCHANGED <<db_conversations, db_messages>>
ConversationAccessControl == [][ForeignRequestDenied]_vars

\* C26 witness: a conversation holding a message survived a DELETE by
\* another user, who got 404
WitnessForeignDeleteDenied ==
    /\ st_last.op = "delete" /\ st_last.status = 404
    /\ Stored(st_last.id)
    /\ db_conversations[st_last.id].user # st_last.user
    /\ MessagesOf(st_last.id) # <<>>

----------------------------------------------------------------------------
(* Properties of the history and the requests of a chat turn *)

\* `new` is `old` followed by one assistant message carrying the content and
\* the batch of the round `rd`, then one tool message per call of the batch,
\* in the order of the batch
HistoryExtendedBy(old, new, rd) ==
    LET n == Len(old)
        k == Len(rd.tool_calls)
    IN  /\ Len(new) = n + 1 + k
        /\ SubSeq(new, 1, n) = old
        /\ new[n + 1].role = "assistant"
        /\ new[n + 1].content = rd.content
        /\ new[n + 1].tool_calls = rd.tool_calls
        /\ \A i \in 1..k :
              /\ new[n + 1 + i].role = "tool"
              /\ new[n + 1 + i].tool_call_id = rd.tool_calls[i]

\* this step sends the first provider request made after a tool round
RequestAfterRound ==
    /\ llmCalls' = llmCalls + 1
    /\ lastRequest'.after = lastRequest.after + 1

\* the history in use only grows at its end, and the list the caller built
\* stays as the caller built it
HistoryKept ==
    /\ IsPrefix(api_messages, api_messages')
    /\ caller_messages' = caller_messages

\* C27 as stated: after each tool round the history passed to the next LLM
\* call is the history of the call before it followed by exactly one
\* assistant message carrying the batch and one tool message per result in
\* order; earlier messages are never removed, reordered or modified, and the
\* caller's original list is not mutated
NextRequestIsPreviousPlusRound ==
    RequestAfterRound =>
        HistoryExtendedBy(lastRequest.body.messages, lastRequest'.body.messages,
                          rounds'[lastRequest'.after])
ToolRoundExtendsHistory == [][NextRequestIsPreviousPlusRound /\ HistoryKept]_vars

\* the request is the final streaming call made after the tenth round with no
\* text produced so far (api.py:529-533)
ForcedFinal(req) ==
    /\ req.body.stream
    /\ iteration >= MAX_TOOL_ITERATIONS
    /\ full_response = EmptyText

\* C27 amended: as stated, except that the final streaming call made after
\* the round that reaches the iteration bound with no text produced carries,
\* after that round's assistant and tool messages, one system instruction
NextRequestIsPreviousPlusRoundOrForced ==
    RequestAfterRound =>
        LET sent == lastRequest'.body.messages
            forced == ForcedFinal(lastRequest')
            asked == IF forced THEN SubSeq(sent, 1, Len(sent) - 1) ELSE sent
        IN  /\ HistoryExtendedBy(lastRequest.body.messages, asked,
                                 rounds'[lastRequest'.after])
            /\ forced => sent[Len(sent)] = ForceFinalMessage
ToolRoundExtendsHistoryUpToForcedFinal ==
    [][NextRequestIsPreviousPlusRoundOrForced /\ HistoryKept]_vars

\* C27 witness: the final streaming call was sent after ten rounds without
\* text; it carries the ten rounds and the system instruction, and the
\* caller's list is the two messages it was built with
WitnessForcedFinalAfterRounds ==
    /\ lastRequest.body.stream
    /\ lastRequest.after = MAX_TOOL_ITERATIONS
    /\ Len(lastRequest.body.messages) = Len(InitialMessages) + 3 * MAX_TOOL_ITERATIONS + 1
    /\ lastRequest.body.messages[Len(lastRequest.body.messages)] = ForceFinalMessage
    /\ caller_messages = InitialMessages
    /\ ~aliased

\* the non-streaming handler holds a response that asks for no tool
ToolFreeResponseHeld ==
    mode = "chat" /\ pc = "process" /\ response.tool_calls = <<>>

\* C28: in the non-streaming path a response with no tool calls ends the turn
\* with the next step: no tool round is run and no LLM call is made after it,
\* and the text returned is that response's content
ToolFreeResponseReturned ==
    /\ ToolFreeResponseHeld =>
          /\ pc' = "end"
          /\ outcome'.kind = "ok"
          /\ outcome'.message = response.content
          /\ llmCalls' = llmCalls /\ batches' = batches /\ rounds' = rounds
    /\ (mode = "chat" /\ pc = "end") =>
          llmCalls' = llmCalls /\ batches' = batches /\ rounds' = rounds
ToolFreeResponseEndsTurn == [][ToolFreeResponseReturned]_vars

\* C28 witness: after one tool round the provider answered with text and no
\* tool calls; the turn ended with that text, two LLM calls and one batch
WitnessTextAfterOneRound ==
    /\ mode = "chat" /\ pc = "end"
    /\ outcome.kind = "ok"
    /\ answered = <<>>
    /\ response.content = LongText
    /\ outcome.message = LongText
    /\ batches = 1 /\ llmCalls = 2

\* positions in `events` of the status events yielded from the moment the
\* answer of round k arrived until the answer of the next round arrived (or
\* until now, for the latest round)
StatusEventsOfRound(k) ==
    LET upto == IF k < Len(rounds) THEN rounds[k + 1].response_at ELSE Len(events)
    IN  {i \in 1..Len(events) :
            /\ rounds[k].response_at < i /\ i <= upto
            /\ events[i].type = "status"}

\* C29: in the streaming path every round whose batch was handed to the
\* executor has exactly one status event, yielded after the round's LLM
\* answer arrived and before execute_tool_calls was entered; so no batch
\* reaches the tool server in a round without a status event
OneStatusEventBeforeTools ==
    mode = "stream" =>
        \A k \in 1..Len(rounds) :
            /\ Cardinality(StatusEventsOfRound(k)) = 1
            /\ \A i \in StatusEventsOfRound(k) :
                  /\ i <= rounds[k].tools_at
                  /\ events[i] = StatusEvent(k)

\* C29 witness: two batches were executed; the second answer carried text,
\* so its status event came after content events and before the batch
WitnessStatusAfterContent ==
    /\ mode = "stream"
    /\ Len(rounds) = 2 /\ batches = 2
    /\ rounds[2].completed
    /\ rounds[2].content = LongText
    /\ rounds[2].tools_at > rounds[2].response_at + 1
    /\ events[rounds[2].tools_at] = StatusEvent(2)
    /\ events[rounds[1].tools_at] = StatusEvent(1)

\* the tool-calling sub-loop of generate() is over: its latest answer asked
\* for no tool, or the iteration bound is reached; with MCP disabled it never
\* ran
SubLoopOver ==
    IF mcp_enabled
      THEN llmCalls >= 1 /\ (answered = <<>> \/ iteration >= MAX_TOOL_ITERATIONS)
      ELSE llmCalls = 0 /\ rounds = <<>>

\* this step sends a provider request with stream = true
StreamingCallSent == llmCalls' = llmCalls + 1 /\ lastRequest'.body.stream

\* C30: in the streaming path a turn makes at most one streaming provider
\* call; it is sent only once the sub-loop is over, carries neither tools nor
\* tool_choice, and after it no tool round is run and no provider call made
StreamingCallIsLast ==
    /\ StreamingCallSent =>
          /\ ~lastRequest.body.stream
          /\ SubLoopOver
          /\ ~lastRequest'.body.tools
          /\ lastRequest'.body.tool_choice = NoneVal
    /\ lastRequest.body.stream =>
          llmCalls' = llmCalls /\ batches' = batches /\ rounds' = rounds
OneFinalStreamingCall == [][StreamingCallIsLast]_vars

\* C30 witness: one batch was executed, the next answer asked for no tool and
\* had no text, the streaming call followed and the turn ran to its end
WitnessStreamedAfterToolFreeAnswer ==
    /\ mode = "stream" /\ pc = "end"
    /\ lastRequest.body.stream /\ ~lastRequest.body.tools
    /\ batches = 1 /\ llmCalls = 3
    /\ answered = <<>>
    /\ iteration < MAX_TOOL_ITERATIONS

\* the content of the events of a sequence, joined in order
RECURSIVE JoinedContent(_)
JoinedContent(evs) ==
    IF evs = <<>> THEN <<>> ELSE Head(evs).content \o JoinedContent(Tail(evs))

IsContentEvent(e) == e.type = "content"

\* this step receives a 200 answer in the streaming sub-loop
SubLoopAnswered ==
    /\ mode = "stream" /\ pc = "loop"
    /\ llmCalls' = llmCalls + 1
    /\ ~failedCall'

\* C31: in the streaming path the text of a sub-loop answer is yielded as
\* content events of at most 20 characters each, whose contents joined in
\* order are the text; they come before anything else the round yields (its
\* status event) and before its batch is executed; an answer with empty text
\* yields no content event
AnswerTextChunked ==
    SubLoopAnswered =>
        LET yielded == SubSeq(events', Len(events) + 1, Len(events'))
            contents == SelectSeq(yielded, IsContentEvent)
        IN  /\ \A i \in 1..Len(contents) :
                  Len(contents[i].content) >= 1 /\ Len(contents[i].content) <= 20
            /\ JoinedContent(contents) = answeredText'
            /\ answeredText' = EmptyText => contents = <<>>
            /\ SubSeq(yielded, 1, Len(contents)) = contents
            /\ rounds' # rounds =>
                  /\ rounds'[Len(rounds')].tools_at > Len(events) + Len(contents)
                  /\ yielded[Len(contents) + 1].type = "status"
SubLoopTextIsStreamed == [][AnswerTextChunked]_vars

\* C31 witness: an answer of 21 characters that asked for tools was yielded
\* as a chunk of 20 and a chunk of 1, then the status event, then the batch ran
WitnessTwoChunksBeforeStatus ==
    /\ mode = "stream" /\ batches = 1
    /\ rounds[1].content = LongText
    /\ Len(events) = 3
    /\ events[1] = ContentEvent(SubSeq(LongText, 1, 20))
    /\ events[2] = ContentEvent(SubSeq(LongText, 21, 21))
    /\ events[3] = StatusEvent(1)
    /\ rounds[1].tools_at = 3

LineRead == rs_stdout # <<>> /\ rs_stdout' = Tail(rs_stdout)

\* this step is the error reader handling a line
ErrorLineRead == rs_stderr # <<>> /\ rs_stderr' = Tail(rs_stderr)

\* nothing about the connection or its caller changes
CallAndStateKept == UNCHANGED <<rs_queue, rs_running, rs_call, rs_result>>

\* C33: the output reader queues every complete line that is a JSON object,
\* at the end of the queue, and goes on reading; a line that is not JSON is
\* dropped with nothing queued, no call failed and the running state as it
\* was; a line of the error stream changes nothing either
ReaderHandlesLine ==
    /\ LineRead =>
          LET line == Head(rs_stdout)
          IN  /\ IsJsonObject(line) =>
                    rs_queue' = Append(rs_queue, line) /\ rs_reader' = "reading"
              /\ ~IsJson(line) =>
                    CallAndStateKept /\ rs_reader' = "reading"
    /\ ErrorLineRead => CallAndStateKept /\ rs_reader' = rs_reader
ReaderQueuesJsonObjectsOnly == [][ReaderHandlesLine]_vars

\* the value of a key of a native entry, or `default` when the entry lacks it
OwnOr(value, default) == IF value = Missing THEN default ELSE value

\* C34: a well-formed tools/list result of N native entries is translated
\* into N entries in the same order; each has type "function" and a function
\* with the entry's own name, description and inputSchema, where an absent
\* name or description becomes the empty string and an absent inputSchema the
\* empty object schema
TranslationIsEntrywise ==
    tr_pc = "returned" =>
        /\ Len(tr_output) = Len(tr_input)
        /\ \A i \in 1..Len(tr_input) :
              /\ tr_output[i].type = "function"
              /\ DOMAIN tr_output[i].function = {"name", "description", "parameters"}
              /\ tr_output[i].function.name = OwnOr(tr_input[i].name, "")
              /\ tr_output[i].function.description = OwnOr(tr_input[i].description, "")
              /\ tr_output[i].function.parameters =
                    OwnOr(tr_input[i].inputSchema, "schema_none")

\* C34 witness: two entries were translated, the first complete, the second
\* with none of the three keys
WitnessBareEntryTranslated ==
    /\ tr_pc = "returned"
    /\ Len(tr_input) = 2
    /\ tr_input[1] = McpTool("search_nodes", "search", "schema_query")
    /\ tr_input[2] = McpTool(Missing, Missing, Missing)
    /\ tr_output[1] = LlmTool("search_nodes", "search", "schema_query")
    /\ tr_output[2] = LlmTool("", "", "schema_none")

\* the conversationId of the turn names a stored conversation of another user
NamesForeignConversation(turn) ==
    /\ turn.id \in ConvIds
    /\ db_conversations[turn.id].state = "stored"
    /\ db_conversations[turn.id].user # turn.user

\* C35: the stored rows in the messages of a turn's LLM request all belong
\* to a conversation of the turn's user; when the request names another
\* user's conversation none of its rows is in the messages and the turn goes
\* on in a conversation created for it
HistoryOfOwnConversation ==
    (Called({"turn"}) /\ st_last'.outcome = "sent") =>
        /\ \A i \in 1..Len(st_last'.history) :
              db_conversations[st_last'.history[i].conversation].user = st_last'.user
        /\ NamesForeignConversation(st_last') =>
              /\ st_last'.history = <<>>
              /\ st_last'.conversation # st_last'.id
              /\ db_conversations[st_last'.conversation].state = "free"

HistoryOnlyFromOwnConversation == [][HistoryOfOwnConversation]_vars

\* thread t takes the lock and clears the queue in this step
Drains(t) == t_pc[t] = "lock" /\ t_pc'[t] = "write"

\* a caller is waiting in queue.get for the response to call c
StillWaiting(c) == \E u \in Threads : t_pc[u] = "wait" /\ t_call[u] = c

\* C36: the drain before a request is written discards no response to a
\* request whose caller is still waiting for it
DrainDiscardsNoAwaitedResponse ==
    \A t \in Threads :
        Drains(t) => \A i \in 1..Len(m_queue) : ~StillWaiting(m_queue[i].call)

DrainSparesWaitingCallers == [][DrainDiscardsNoAwaitedResponse]_vars

\* no thread is inside start_server or stop_server
ProcessQuiet == \A t \in Threads : ps_pc[t] = "idle"

\* C37: once start_server, stop_server and the calls have returned, every
\* child of the connection that is alive is the one self._process names, so
\* at most one child is alive
EveryLiveChildIsReferenced ==
    ProcessQuiet =>
        \A child \in Children : ps_children[child] = "alive" => ps_process = child

\* C38: when the user's chat turns have completed, the stored balance is the
\* balance before them minus the sum of their total_tokens // 10
BalanceIsStartMinusDeductions ==
    (\A t \in Threads : bl_pc[t] = "idle") => bl_stored = StartBalance - bl_due

\* C39: with MCP_ENABLED false no chat turn executes a tool batch, so no
\* tools/call request reaches the tool server
DisabledSendsNoToolRequest == ~mcp_enabled => batches = 0

\* this step is a call of get_tool_definitions whose tools/list fetch failed
FailedFetchCall ==
    /\ def_calls' = def_calls + 1
    /\ def_last'.fetched /\ def_last'.failed

\* C40: a call whose tools/list fetch failed returns the fallback set and
\* leaves the cache as it was
FailedFetchKeepsCache ==
    FailedFetchCall =>
        /\ def_last'.value = Some(FALLBACK_TOOLS)
        /\ cached_tools' = cached_tools

FailedFetchLeavesCacheUnchanged == [][FailedFetchKeepsCache]_vars

====
